---- MODULE Spec2Model ----
(***************************************************************************)
(* git-memories: the contribution-discovery engine.                        *)
(*                                                                         *)
(* Two implementations of the same pipeline live in the repository:        *)
(*   "modular" - ContributionsAPI with RepositoryAPI, CommitAPI and        *)
(*               PullRequestAPI (src/github/*.ts), the one the CLI uses    *)
(*               through GitHubAPI in src/github/index.ts;                 *)
(*   "legacy"  - the monolithic GitHubAPI of src/github-api.ts.            *)
(* SpecPlan runs findActiveReposOnDate alone, one loop iteration per step; *)
(* Spec runs one call of getContributionsOnDate against a host whose       *)
(* answers are chosen nondeterministically; FairSpec is Spec on an event   *)
(* loop that runs whatever is ready; SpecCap is the modular pipeline over  *)
(* an inventory longer than the per-year cap.  SpecCli is the command line *)
(* program up to its call of getContributionsOnDate, SpecAuth is           *)
(* GitHubAuth.authenticate, and SpecOAuth is OAuthAuth.authenticate with   *)
(* its callback server and timer.                                          *)
(***************************************************************************)
EXTENDS Integers, Sequences, FiniteSets, TLC

VARIABLES
    impl,               \* which implementation runs: "modular" or "legacy"
    month, day,         \* target month (1..12) and day of month
    startYear, endYear, \* the year range of the call
    pc,                 \* position of the control flow
    repos,              \* the inventory, with the derived year fields
    fyear,              \* findActiveReposOnDate: the loop variable `year`
    candidates,         \* findActiveReposOnDate: `activeRepos` of the last iteration
    activeReposByYear,  \* the plan: year -> list of repositories
    years,              \* the keys of the plan in the order they are processed
    yi,                 \* index into years of the year being processed
    activeRepos,        \* the candidate list of the year being processed
    cloop,              \* CommitAPI.getCommitsFromActiveRepos: [idx, st]
    ploop,              \* PullRequestAPI.getPullRequestsFromActiveRepos: [idx, st]
    lloop,              \* legacy getContributionsFromActiveRepos: [idx, st]
    commits,            \* commits collected for the year being processed
    pullRequests,       \* pull requests collected for the year being processed
    contributions,      \* the result list of getContributionsOnDate
    spinLog,            \* what the spinner was told, in order
    inflight,           \* host requests issued and not yet answered
    issued,             \* every host request issued so far
    reissued,           \* TRUE once a request was issued a second time
    outcome,            \* answered request -> [ok, n, kept]
    response,           \* the host's answer being processed, if any
    nfail,              \* host requests that failed so far
    nitems,             \* items the host returned so far
    hostRepos,          \* the host: the repositories of the user, as listed
    quota,              \* the host: failures and items it has for this call
    cliPc,              \* index.ts: position of the command line program
    today,              \* index.ts: the clock, [year, month, day]
    argv,               \* index.ts: process.argv after the program name
    customDate,         \* index.ts: the parsed --date, or NoDate for null
    accountCreatedYear, \* index.ts: year of the account's createdAt
    authPc,             \* GitHubAuth: position of authenticate
    storedToken,        \* GitHubAuth: the token file on disk
    oauthConfigured,    \* GitHubAuth: OAuthAuth.isConfigured()
    ghAvailable,        \* GitHubAuth: GitHubCLIAuth.isAvailable()
    attempts,           \* GitHubAuth: the methods tried, in order
    authResult,         \* GitHubAuth: how authenticate ended
    oaPc,               \* OAuthAuth: position of authenticate
    callbacks,          \* OAuthAuth: the callback requests being handled
    authResolve,        \* OAuthAuth: app.authResolve / app.authReject are set
    authTimeout,        \* OAuthAuth: the timer of waitForCallback
    serverOpen,         \* OAuthAuth: the callback server listens
    promise,            \* OAuthAuth: the promise of waitForCallback
    served              \* OAuthAuth: callbacks served before any timeout

planVars == <<impl, month, day, startYear, endYear, pc, repos, fyear,
              candidates, activeReposByYear>>

runVars == <<years, yi, activeRepos, cloop, ploop, lloop, commits,
             pullRequests, contributions, spinLog, inflight, issued, reissued,
             outcome, response, nfail, nitems>>

hostVars == <<hostRepos, quota>>

cliVars == <<cliPc, today, argv, customDate, accountCreatedYear>>

authVars == <<authPc, storedToken, oauthConfigured, ghAvailable, attempts,
              authResult>>

oauthVars == <<oaPc, callbacks, authResolve, authTimeout, serverOpen, promise,
               served>>

\* the command line program around the pipeline
frontVars == <<cliVars, authVars, oauthVars>>

vars == <<planVars, runVars, hostVars, frontVars>>

-----------------------------------------------------------------------------
(* Bounds of the model *)

\* longest inventory enumerated exhaustively for findActiveReposOnDate
MaxPlanRepos == 1
\* how many entries beyond the per-year cap the long inventories have
MaxOverCap == 2

\* GITHUB_CONFIG.MAX_REPOS_PER_YEAR
MAX_REPOS_PER_YEAR == 10

Impls == {"modular", "legacy"}

\* the calendar years the model draws from
PlanYears == 2022 .. 2024

-----------------------------------------------------------------------------
(* Small helpers *)

Min(a, b) == IF a <= b THEN a ELSE b

\* Array.prototype.slice(begin, end) on a 1-based sequence
slice(s, begin, end) == SubSeq(s, begin + 1, Min(end, Len(s)))

\* the empty object {}
EmptyRecord == [k \in {} |-> <<>>]

-----------------------------------------------------------------------------
(* findActiveReposOnDate *)

\* a variant of the callback that forgets the push year
wasActive_noPush(repo, year) ==
    repo.createdYear <= year /\ repo.updatedYear >= year

\* a variant of the callback that wants the repository created in an
\* earlier year
wasActive_strictCreated(repo, year) ==
    /\ repo.createdYear < year
    /\ (repo.updatedYear >= year \/ repo.pushedYear >= year)

\* the filter callback: was the repository potentially active in `year`?
wasActive(repo, year) ==
    LET wasCreatedBefore == repo.createdYear <= year
        wasUpdatedAfter  == repo.updatedYear >= year
        wasPushedAfter   == repo.pushedYear >= year
    IN  wasCreatedBefore /\ (wasUpdatedAfter \/ wasPushedAfter)

\* the same callback in the legacy GitHubAPI
legacyWasActive(repo, year) ==
    LET wasCreatedBefore == repo.createdYear <= year
        wasUpdatedAfter  == repo.updatedYear >= year
        wasPushedAfter   == repo.pushedYear >= year
    IN  wasCreatedBefore /\ (wasUpdatedAfter \/ wasPushedAfter)

\* repos.filter(...) of one loop iteration
filterActive(i, rs, year) ==
    IF i = "modular"
    THEN SelectSeq(rs, LAMBDA repo : wasActive(repo, year))
    ELSE SelectSeq(rs, LAMBDA repo : legacyWasActive(repo, year))

\* a variant of the cap that is off by one
capOf_offByOne(i) == MAX_REPOS_PER_YEAR + 1

\* the cap applied by the implementation: GITHUB_CONFIG.MAX_REPOS_PER_YEAR in
\* RepositoryAPI, the literal 10 in the legacy GitHubAPI
capOf(i) == IF i = "modular" THEN MAX_REPOS_PER_YEAR ELSE 10

\* a variant of the loop body that records the candidates without the cap
recordYear_uncapped(byYear, year, active, cap) ==
    IF Len(active) > 0
    THEN (year :> active) @@ byYear
    ELSE byYear

\* a variant of the loop body that records every year
recordYear_always(byYear, year, active, cap) ==
    (year :> slice(active, 0, cap)) @@ byYear

\* the body of the loop after the filter: record the year when it has
\* candidates, truncated to the cap
recordYear(byYear, year, active, cap) ==
    IF Len(active) > 0
    THEN (year :> slice(active, 0, cap)) @@ byYear
    ELSE byYear

\* a variant of the loop that tests its condition after the body
RECURSIVE planFrom_doWhile(_, _, _, _, _)
planFrom_doWhile(i, byYear, rs, year, last) ==
    LET after == recordYear(byYear, year, filterActive(i, rs, year), capOf(i))
    IN  IF year + 1 > last
        THEN after
        ELSE planFrom_doWhile(i, after, rs, year + 1, last)

\* the whole function: for (year = startYear; year <= endYear; year++)
RECURSIVE planFrom(_, _, _, _, _)
planFrom(i, byYear, rs, year, last) ==
    IF year > last
    THEN byYear
    ELSE planFrom(i,
                  recordYear(byYear, year, filterActive(i, rs, year), capOf(i)),
                  rs, year + 1, last)

findActiveReposOnDate(i, rs, m, d, first, last) ==
    planFrom(i, EmptyRecord, rs, first, last)

-----------------------------------------------------------------------------
(* Dates.  A Date is a whole number of hours, local time; days are counted   *)
(* in the proleptic Gregorian calendar.                                      *)

isLeap(y) == (y % 4 = 0 /\ y % 100 # 0) \/ y % 400 = 0

\* days from the calendar's origin to January 1 of year y
daysBeforeYear(y) ==
    365 * (y - 1) + ((y - 1) \div 4) - ((y - 1) \div 100) + ((y - 1) \div 400)

\* days from January 1 to the first of month m (1..12) in year y
daysBeforeMonth(y, m) ==
    LET common == <<0, 31, 59, 90, 120, 151, 181, 212, 243, 273, 304, 334>>
    IN  common[m] + (IF m > 2 /\ isLeap(y) THEN 1 ELSE 0)

\* new Date(year, monthIndex, d): local midnight; a day past the end of the
\* month rolls over into the next one
newDate(year, monthIndex, d) ==
    24 * (daysBeforeYear(year) + daysBeforeMonth(year, monthIndex + 1) + d - 1)

\* Date.prototype.getFullYear
getFullYear(t) ==
    LET dn  == t \div 24
        est == ((dn * 400) \div 146097) + 1
    IN  CHOOSE y \in (est - 1)..(est + 1) :
            daysBeforeYear(y) <= dn /\ dn < daysBeforeYear(y + 1)

\* the month (1..12) and the day of the month of a time
monthOf(t) ==
    LET y   == getFullYear(t)
        doy == (t \div 24) - daysBeforeYear(y)
    IN  CHOOSE m \in 1..12 :
            /\ daysBeforeMonth(y, m) <= doy
            /\ (m = 12 \/ doy < daysBeforeMonth(y, m + 1))

dayOfMonth(t) ==
    LET y == getFullYear(t)
    IN  (t \div 24) - daysBeforeYear(y) - daysBeforeMonth(y, monthOf(t)) + 1

-----------------------------------------------------------------------------
(* The array helpers the pipeline uses *)

Max(a, b) == IF a >= b THEN a ELSE b

RECURSIVE SetMax(_)
SetMax(S) ==
    LET x == CHOOSE e \in S : TRUE
    IN  IF S = {x} THEN x ELSE Max(x, SetMax(S \ {x}))

RECURSIVE SetMin(_)
SetMin(S) ==
    LET x == CHOOSE e \in S : TRUE
    IN  IF S = {x} THEN x ELSE Min(x, SetMin(S \ {x}))

\* Object.keys / Object.entries of a record whose keys are years: integer
\* keys come out in ascending order
RECURSIVE ascending(_)
ascending(S) ==
    IF S = {} THEN <<>> ELSE <<SetMin(S)>> \o ascending(S \ {SetMin(S)})

objectKeys(rec) == ascending(DOMAIN rec)

\* ks.sort((a, b) => parseInt(b) - parseInt(a)): insertion by the comparator
RECURSIVE insertNewestFirst(_, _)
insertNewestFirst(k, sorted) ==
    IF sorted = <<>> THEN <<k>>
    ELSE IF Head(sorted) - k <= 0 THEN <<k>> \o sorted
    ELSE <<Head(sorted)>> \o insertNewestFirst(k, Tail(sorted))

RECURSIVE sortNewestFirst(_)
sortNewestFirst(ks) ==
    IF ks = <<>> THEN <<>>
    ELSE insertNewestFirst(Head(ks), sortNewestFirst(Tail(ks)))

\* a variant of the order that forgets the sort
yearOrder_unsorted(i, byYear) == objectKeys(byYear)

\* the order in which getContributionsOnDate walks the plan
yearOrder(i, byYear) ==
    IF i = "modular" THEN sortNewestFirst(objectKeys(byYear))
    ELSE objectKeys(byYear)

-----------------------------------------------------------------------------
(* The per-request functions *)

\* getUserRepositories: the mapping of the host's records
getUserRepositories(raw) ==
    [i \in 1..Len(raw) |->
        [name        |-> raw[i].name,
         createdYear |-> getFullYear(raw[i].created_at),
         updatedYear |-> getFullYear(raw[i].updated_at),
         pushedYear  |-> getFullYear(raw[i].pushed_at)]]

\* getCommitsForRepoOnDate: the mapping of the host's commits
getCommitsForRepoOnDate(repoName, raw) ==
    [i \in 1..Len(raw) |->
        [url |-> raw[i].html_url, repo |-> repoName, pushedDate |-> raw[i].date]]

\* a variant of the callback that only has the lower bound
prInWindow_sinceOnly(pr, startDate, endDate) ==
    pr.created_at >= startDate

\* the filter callback of getPullRequestsForRepoOnDate
prInWindow(pr, startDate, endDate) ==
    pr.created_at >= startDate /\ pr.created_at < endDate

\* getPullRequestsForRepoOnDate: filter, then map
getPullRequestsForRepoOnDate(repoName, startDate, endDate, raw) ==
    LET kept == SelectSeq(raw, LAMBDA pr : prInWindow(pr, startDate, endDate))
    IN  [i \in 1..Len(kept) |->
            [url |-> kept[i].html_url, repo |-> repoName,
             createdAt |-> kept[i].created_at]]

\* a variant of nextDay that lies two days after the target
nextDay_twoDays(year) == newDate(year, month - 1, day + 2)

\* targetDate of the fetch loops
targetDate(year) == newDate(year, month - 1, day)

\* nextDay of the fetch loops
nextDay(year) == newDate(year, month - 1, day + 1)

-----------------------------------------------------------------------------
(* The host *)

\* host requests
InventoryReq       == <<"repos", 0, 0>>
CommitsReq(y, n)   == <<"commits", y, n>>
PullsReq(y, n)     == <<"pulls", y, n>>

\* no answer of the host is being processed
NoResponse == [req |-> <<>>, held |-> <<>>, raw |-> <<>>, kept |-> <<>>]

\* no value
Null == "null"
\* no date: stands for null where a date is expected
NoDate == [year |-> 0, month |-> 0, day |-> 0]

\* the command line program, its authentication and its OAuth flow at rest
FrontIdle ==
    /\ cliPc = "off"
    /\ today = NoDate
    /\ argv = <<>>
    /\ customDate = NoDate
    /\ accountCreatedYear = 0
    /\ authPc = "off"
    /\ storedToken = Null
    /\ oauthConfigured = FALSE
    /\ ghAvailable = FALSE
    /\ attempts = <<>>
    /\ authResult = Null
    /\ oaPc = "off"
    /\ callbacks = <<>>
    /\ authResolve = FALSE
    /\ authTimeout = "unset"
    /\ serverOpen = FALSE
    /\ promise = "none"
    /\ served = 0

\* what the spinner is told: s.start(FETCHING.START),
\* s.message(FETCHING.YEAR_PROGRESS(year)), s.stop(FETCHING.SUCCESS) and
\* s.stop(FETCHING.FAILED)
SpinStart       == <<"start", 0>>
SpinYear(year)  == <<"year", year>>
SpinStopSuccess == <<"stop_success", 0>>
SpinStopFailed  == <<"stop_failed", 0>>

\* the pipeline at rest: nothing fetched, nothing asked
RunIdle ==
    /\ years = <<>>
    /\ yi = 0
    /\ activeRepos = <<>>
    /\ cloop = [idx |-> 0, st |-> "idle"]
    /\ ploop = [idx |-> 0, st |-> "idle"]
    /\ lloop = [idx |-> 0, st |-> "idle"]
    /\ commits = <<>>
    /\ pullRequests = <<>>
    /\ contributions = <<>>
    /\ spinLog = <<>>
    /\ inflight = {}
    /\ issued = {}
    /\ reissued = FALSE
    /\ outcome = EmptyRecord
    /\ response = NoResponse
    /\ nfail = 0
    /\ nitems = 0

-----------------------------------------------------------------------------
(* SpecPlan: findActiveReposOnDate on its own *)

\* a repository record as findActiveReposOnDate reads it
Repo(n, c, u, p) ==
    [name |-> n, createdYear |-> c, updatedYear |-> u, pushedYear |-> p]

YearTriples == PlanYears \X PlanYears \X PlanYears

\* every inventory of at most MaxPlanRepos repositories over the plan years
ShortInventories ==
    UNION { { [i \in 1..n |-> Repo(i, f[i][1], f[i][2], f[i][3])] :
              f \in [1..n -> YearTriples] } : n \in 0..MaxPlanRepos }

\* inventories around and beyond the cap: one repository of kind `a` at
\* position h among repositories of kind `b`
LongShapes == { <<2022, 2024, 2024>>, <<2023, 2023, 2022>>,
                <<2022, 2022, 2022>>, <<2022, 2022, 2023>> }

LongLengths ==
    (MAX_REPOS_PER_YEAR - 1) .. (MAX_REPOS_PER_YEAR + MaxOverCap)

LongInventories ==
    UNION { { [i \in 1..n |-> IF i = h
                              THEN Repo(i, a[1], a[2], a[3])
                              ELSE Repo(i, b[1], b[2], b[3])] :
              <<h, a, b>> \in (1..n) \X LongShapes \X LongShapes } :
            n \in LongLengths }

PlanInventories == ShortInventories \cup LongInventories

PlanDates == { <<2, 29>>, <<9, 14>> }

\* the worked scenario of a single repository created in 2020 and last
\* pushed in 2023, looked up over 2018..2024, for every year of last update
ScenarioRange == <<2018, 2024>>
ScenarioUpdatedYears == 2018 .. 2025
ScenarioInventories ==
    { <<Repo(1, 2020, u, 2023)>> : u \in ScenarioUpdatedYears }

InitPlan ==
    /\ impl \in Impls
    /\ \/ /\ repos \in PlanInventories
          /\ startYear \in PlanYears
          /\ endYear \in PlanYears
       \/ /\ repos \in ScenarioInventories
          /\ startYear = ScenarioRange[1]
          /\ endYear = ScenarioRange[2]
    /\ \E md \in PlanDates : month = md[1] /\ day = md[2]
    /\ pc = "plan_loop"
    /\ fyear = startYear
    /\ candidates = <<>>
    /\ activeReposByYear = EmptyRecord
    /\ RunIdle
    /\ hostRepos = <<>>
    /\ quota = 0
    /\ FrontIdle

\* a variant of the iteration that leaves out a year in which the target
\* date does not exist
PlanIterate_existingDates ==
    /\ pc = "plan_loop"
    /\ fyear <= endYear
    /\ candidates' = filterActive(impl, repos, fyear)
    /\ activeReposByYear' =
         IF getFullYear(newDate(fyear, month - 1, day)) = fyear
            /\ monthOf(newDate(fyear, month - 1, day)) = month
         THEN recordYear(activeReposByYear, fyear, candidates', capOf(impl))
         ELSE activeReposByYear
    /\ fyear' = fyear + 1
    /\ UNCHANGED <<hostVars, frontVars, impl, month, day, startYear, endYear,
                   pc, repos, runVars>>

\* one iteration of the for loop
PlanIterate ==
    /\ pc = "plan_loop"
    /\ fyear <= endYear
    /\ candidates' = filterActive(impl, repos, fyear)
    /\ activeReposByYear' =
         recordYear(activeReposByYear, fyear, candidates', capOf(impl))
    /\ fyear' = fyear + 1
    /\ UNCHANGED <<hostVars, frontVars, impl, month, day, startYear, endYear,
                   pc, repos, runVars>>

\* return activeReposByYear
PlanReturn ==
    /\ pc = "plan_loop"
    /\ fyear > endYear
    /\ pc' = "plan_done"
    /\ UNCHANGED <<hostVars, frontVars, impl, month, day, startYear, endYear,
                   repos, fyear,
                   candidates, activeReposByYear, runVars>>

NextPlan == PlanIterate \/ PlanReturn

SpecPlan == InitPlan /\ [][NextPlan]_vars

-----------------------------------------------------------------------------
(* Claims about findActiveReposOnDate, checked under SpecPlan *)

\* the candidate condition as the specification words it
IsCandidateFor(r, y) ==
    r.createdYear <= y /\ (r.updatedYear >= y \/ r.pushedYear >= y)

\* positions in the inventory of the candidates for year y
CandidateIdx(y) == { i \in 1..Len(repos) : IsCandidateFor(repos[i], y) }

\* position in the inventory of the j-th candidate for year y
NthCandidate(y, j) ==
    CHOOSE i \in CandidateIdx(y) :
        Cardinality({ k \in CandidateIdx(y) : k <= i }) = j

InList(r, list) == \E j \in 1..Len(list) : list[j] = r

\* C1: for every repository R of the inventory and every year Y of the
\* range, R passes the per-year filter iff R.createdYear <= Y and
\* (R.updatedYear >= Y or R.pushedYear >= Y).  Each loop iteration leaves its
\* filter result in `candidates`; the year it was computed for is fyear - 1.
C1_CandidateIff ==
    (pc \in {"plan_loop", "plan_done"} /\ fyear > startYear) =>
        /\ \A i \in 1..Len(repos) :
             InList(repos[i], candidates)
                <=> /\ repos[i].createdYear <= fyear - 1
                    /\ \/ repos[i].updatedYear >= fyear - 1
                       \/ repos[i].pushedYear >= fyear - 1
        /\ \A j \in 1..Len(candidates) : InList(candidates[j], repos)

\* C1 witness: an iteration kept a repository only because of its push year
\* and dropped another that already existed
C1_Witness ==
    /\ pc = "plan_loop"
    /\ fyear > startYear
    /\ \E i \in 1..Len(repos) :
         /\ InList(repos[i], candidates)
         /\ repos[i].updatedYear < fyear - 1
         /\ repos[i].pushedYear >= fyear - 1
    /\ \E k \in 1..Len(repos) :
         /\ ~InList(repos[k], candidates)
         /\ repos[k].createdYear <= fyear - 1

\* C2: every list of the returned plan has at most 10 entries and is exactly
\* the first min(10, n) of the n candidates of its year, in inventory order
C2_CappedPrefix ==
    pc = "plan_done" =>
        \A y \in DOMAIN activeReposByYear :
            LET n    == Cardinality(CandidateIdx(y))
                list == activeReposByYear[y]
            IN  /\ Len(list) <= 10
                /\ Len(list) = Min(10, n)
                /\ \A j \in 1..Len(list) : list[j] = repos[NthCandidate(y, j)]

\* C2 witness: a returned plan with a year of more than 10 candidates, cut
\* to 10, whose candidates do not start at the head of the inventory
C2_Witness ==
    /\ pc = "plan_done"
    /\ \E y \in DOMAIN activeReposByYear :
         /\ Cardinality(CandidateIdx(y)) > 10
         /\ Len(activeReposByYear[y]) = 10
         /\ 1 \notin CandidateIdx(y)
         /\ activeReposByYear[y][1] = repos[2]

\* C3: a year of the range is a key of the returned plan iff it has at least
\* one candidate; no key maps to an empty list, no key lies outside the range
C3_KeysAreYearsWithCandidates ==
    pc = "plan_done" =>
        /\ \A y \in startYear..endYear :
             (y \in DOMAIN activeReposByYear) <=> (CandidateIdx(y) # {})
        /\ \A y \in DOMAIN activeReposByYear :
             /\ y \in startYear..endYear
             /\ Len(activeReposByYear[y]) > 0

\* C3 witness: a returned plan that has one year of the range and lacks
\* another
C3_Witness ==
    /\ pc = "plan_done"
    /\ \E y \in startYear..endYear : y \in DOMAIN activeReposByYear
    /\ \E y \in startYear..endYear : y \notin DOMAIN activeReposByYear

\* the inputs are those of the worked scenario
InScenario ==
    /\ repos \in ScenarioInventories
    /\ startYear = ScenarioRange[1]
    /\ endYear = ScenarioRange[2]

\* C22: for an inventory of one repository with createdYear 2020 and
\* pushedYear 2023 and the range 2018..2024, the returned plan has exactly
\* the keys 2020..2023 when updatedYear < 2024 and exactly 2020..2024 when
\* updatedYear >= 2024, and every key lists exactly that repository
C22_ScenarioPlan ==
    (pc = "plan_done" /\ InScenario) =>
        /\ DOMAIN activeReposByYear =
             IF repos[1].updatedYear < 2024 THEN 2020 .. 2023 ELSE 2020 .. 2024
        /\ \A y \in DOMAIN activeReposByYear :
             activeReposByYear[y] = <<repos[1]>>

\* C22 witness: the scenario's plan was returned for a repository last
\* updated before its last push
C22_Witness ==
    /\ pc = "plan_done"
    /\ InScenario
    /\ repos[1].updatedYear < repos[1].pushedYear
    /\ 2023 \in DOMAIN activeReposByYear

\* every month and day the plan could be asked for
AllDates == (1..12) \X {1, 29}

\* C27: the plan findActiveReposOnDate returns does not depend on the month
\* and day it is given: for the same inventory and year range it is the plan
\* of every other date; and the call leaves the inventory as it was
C27_PlanIgnoresDate ==
    /\ [](pc = "plan_done" =>
            \A md \in AllDates :
                activeReposByYear =
                    findActiveReposOnDate(impl, repos, md[1], md[2],
                                          startYear, endYear))
    /\ [][repos' = repos]_vars

\* C27 witness: a plan returned for February 29 has a key for 2023, a year
\* without that date
C27_Witness ==
    /\ pc = "plan_done"
    /\ month = 2
    /\ day = 29
    /\ 2023 \in DOMAIN activeReposByYear

-----------------------------------------------------------------------------
(* Spec: one call of getContributionsOnDate *)

\* longest inventory the host returns in a run
MaxRepos == 2
\* what the host may do in one run besides answering with an empty list:
\* every failed request and every returned commit or pull request counts
MaxEvents == 2

RunDates == { <<2, 29>> }

\* a timestamp of the host inside year y
HostStamp(y) == newDate(y, 6, 1) + 12

\* created, pushed and updated years of a host repository: created and
\* pushed in the first year and updated in the last, or created in the last
RepoShapes ==
    { <<2023, 2023, 2024>>, <<2024, 2024, 2024>> }

\* the year ranges of a call: the whole range, and an empty one
RunRanges == { <<2023, 2024>>, <<2024, 2023>> }

HostRepo(n, t) ==
    [name       |-> n,
     created_at |-> HostStamp(t[1]),
     pushed_at  |-> HostStamp(t[2]),
     updated_at |-> HostStamp(t[3])]

\* what /users/{username}/repos?sort=updated may answer: most recently
\* updated first
HostInventories ==
    UNION { { [i \in 1..n |-> HostRepo(i, f[i])] :
              f \in { g \in [1..n -> RepoShapes] :
                        \A i \in 1..(n - 1) : g[i][3] >= g[i + 1][3] } } :
            n \in 0..MaxRepos }

SeqsUpTo(S, k) == UNION { [1..n -> S] : n \in 0..k }

\* hours after the start of the target day at which the host's items lie;
\* an item's html_url is its position in the host's list
CommitOffsets == { -1, 0, 24 }
PullOffsets   == { -1, 0, 24 }

\* the commits a repository of the host may hold around the target day of
\* year y
CommitsHeld(y) ==
    { [k \in 1..Len(f) |-> [html_url |-> k, date |-> targetDate(y) + f[k]]] :
        f \in SeqsUpTo(CommitOffsets, quota - nfail - nitems) }

\* the host's side of /repos/{owner}/{repo}/commits?since=&until=: the
\* commits it holds from `since` on and before `until`
hostCommits(held, since, until) ==
    SelectSeq(held, LAMBDA c : c.date >= since /\ c.date < until)

\* what /repos/{owner}/{repo}/pulls may answer
PullAnswers(y) ==
    { [k \in 1..Len(f) |-> [html_url |-> k, created_at |-> targetDate(y) + f[k]]] :
        f \in SeqsUpTo(PullOffsets, quota - nfail - nitems) }

Init ==
    /\ impl \in Impls
    /\ \E md \in RunDates : month = md[1] /\ day = md[2]
    /\ \E r \in RunRanges : startYear = r[1] /\ endYear = r[2]
    /\ pc = "init"
    /\ repos = <<>>
    /\ fyear = 0
    /\ candidates = <<>>
    /\ activeReposByYear = EmptyRecord
    /\ RunIdle
    /\ hostRepos \in HostInventories
    /\ quota = MaxEvents
    /\ FrontIdle

\* bookkeeping of the requests an action completes and starts
Traffic(completed, started) ==
    /\ inflight' = (inflight \ completed) \cup started
    /\ issued' = issued \cup started
    /\ reissued' = (reissued \/ (started \cap issued) # {})

Answered(req, isOk, raw, kept) ==
    /\ outcome' = (req :> [ok |-> isOk, n |-> Len(raw), kept |-> kept]) @@ outcome
    /\ response' = IF isOk
                   THEN [req |-> req, held |-> raw, raw |-> raw, kept |-> kept]
                   ELSE NoResponse

\* the same for a request the host answered by selecting from what it holds
AnsweredFrom(req, held, raw, kept) ==
    /\ outcome' = (req :> [ok |-> TRUE, n |-> Len(raw), kept |-> kept]) @@ outcome
    /\ response' = [req |-> req, held |-> held, raw |-> raw, kept |-> kept]

curYear == years[yi]
repoAt(i) == activeRepos[i].name

\* the loop position after the iteration at loop.idx: the next repository's
\* request, or the end of the loop
nextIteration(loop, requesting) ==
    [idx |-> loop.idx + 1,
     st  |-> IF loop.idx + 1 <= Len(activeRepos) THEN requesting ELSE "done"]

nextCommitsReq(loop) ==
    IF loop.idx + 1 <= Len(activeRepos)
    THEN { CommitsReq(curYear, repoAt(loop.idx + 1)) }
    ELSE {}

nextPullsReq(loop) ==
    IF loop.idx + 1 <= Len(activeRepos)
    THEN { PullsReq(curYear, repoAt(loop.idx + 1)) }
    ELSE {}

\* getContributionsOnDate is called: the spinner starts (modular) and the
\* inventory request goes out
StartCall ==
    /\ pc = "init"
    /\ pc' = "inventory"
    /\ spinLog' = IF impl = "modular" THEN <<SpinStart>> ELSE spinLog
    /\ Traffic({}, {InventoryReq})
    /\ UNCHANGED <<hostVars, frontVars, impl, month, day, startYear, endYear,
                   repos, fyear,
                   candidates, activeReposByYear, years, yi, activeRepos,
                   cloop, ploop, lloop, commits, pullRequests, contributions,
                   outcome, nfail, nitems>>
    /\ response' = NoResponse

\* a variant that swallows the inventory error and goes on without a plan
InventoryFails_swallowed ==
    /\ pc = "inventory"
    /\ nfail + nitems < quota
    /\ pc' = "year_loop"
    /\ yi' = 1
    /\ Traffic({InventoryReq}, {})
    /\ Answered(InventoryReq, FALSE, <<>>, <<>>)
    /\ nfail' = nfail + 1
    /\ UNCHANGED <<hostVars, frontVars, impl, month, day, startYear, endYear,
                   repos, fyear,
                   candidates, activeReposByYear, years, activeRepos,
                   cloop, ploop, lloop, commits, pullRequests, contributions,
                   spinLog, nitems>>

\* the inventory request fails: the error leaves getContributionsOnDate
InventoryFails ==
    /\ pc = "inventory"
    /\ nfail + nitems < quota
    /\ pc' = "failed"
    /\ spinLog' = IF impl = "modular"
                  THEN Append(spinLog, SpinStopFailed) ELSE spinLog
    /\ Traffic({InventoryReq}, {})
    /\ Answered(InventoryReq, FALSE, <<>>, <<>>)
    /\ nfail' = nfail + 1
    /\ UNCHANGED <<hostVars, frontVars, impl, month, day, startYear, endYear,
                   repos, fyear,
                   candidates, activeReposByYear, years, yi, activeRepos,
                   cloop, ploop, lloop, commits, pullRequests, contributions,
                   nitems>>

\* the inventory arrives: derive the years, build the plan, order its keys
InventoryArrives ==
    /\ pc = "inventory"
    /\ LET raw == hostRepos IN
        /\ repos' = getUserRepositories(raw)
        /\ activeReposByYear' =
             findActiveReposOnDate(impl, repos', month, day, startYear, endYear)
        /\ years' = yearOrder(impl, activeReposByYear')
        /\ Answered(InventoryReq, TRUE, raw, repos')
    /\ yi' = 1
    /\ pc' = "year_loop"
    /\ Traffic({InventoryReq}, {})
    /\ UNCHANGED <<hostVars, frontVars, impl, month, day, startYear, endYear,
                   fyear, candidates,
                   activeRepos, cloop, ploop, lloop, commits, pullRequests,
                   contributions, spinLog, nfail, nitems>>

\* a variant that fetches every repository of the inventory for each year
BeginYear_wholeInventory ==
    /\ pc = "year_loop"
    /\ impl = "modular"
    /\ yi <= Len(years)
    /\ activeRepos' = repos
    /\ IF Len(activeRepos') > 0
       THEN /\ spinLog' = Append(spinLog, SpinYear(years[yi]))
            /\ cloop' = [idx |-> 1, st |-> "req"]
            /\ ploop' = [idx |-> 1, st |-> "req"]
            /\ Traffic({}, { CommitsReq(years[yi], activeRepos'[1].name),
                             PullsReq(years[yi], activeRepos'[1].name) })
            /\ pc' = "fetch"
            /\ yi' = yi
       ELSE /\ yi' = yi + 1
            /\ UNCHANGED <<spinLog, cloop, ploop, inflight, issued, reissued, pc>>
    /\ commits' = <<>>
    /\ pullRequests' = <<>>
    /\ UNCHANGED <<hostVars, frontVars, impl, month, day, startYear, endYear,
                   repos, fyear,
                   candidates, activeReposByYear, years, lloop, contributions,
                   outcome, nfail, nitems>>
    /\ response' = NoResponse

\* ContributionsAPI: the next year of the plan; the commit loop and the
\* pull-request loop both start and each issues its first request
BeginYear ==
    /\ pc = "year_loop"
    /\ impl = "modular"
    /\ yi <= Len(years)
    /\ activeRepos' = activeReposByYear[years[yi]]
    /\ IF Len(activeRepos') > 0
       THEN /\ spinLog' = Append(spinLog, SpinYear(years[yi]))
            /\ cloop' = [idx |-> 1, st |-> "req"]
            /\ ploop' = [idx |-> 1, st |-> "req"]
            /\ Traffic({}, { CommitsReq(years[yi], activeRepos'[1].name),
                             PullsReq(years[yi], activeRepos'[1].name) })
            /\ pc' = "fetch"
            /\ yi' = yi
       ELSE /\ yi' = yi + 1
            /\ UNCHANGED <<spinLog, cloop, ploop, inflight, issued, reissued, pc>>
    /\ commits' = <<>>
    /\ pullRequests' = <<>>
    /\ UNCHANGED <<hostVars, frontVars, impl, month, day, startYear, endYear,
                   repos, fyear,
                   candidates, activeReposByYear, years, lloop, contributions,
                   outcome, nfail, nitems>>
    /\ response' = NoResponse

\* a variant that puts the commits in front of those collected so far
CommitsArrive_unshift ==
    /\ pc = "fetch"
    /\ cloop.st = "req"
    /\ \E held \in CommitsHeld(curYear) :
        LET req         == CommitsReq(curYear, repoAt(cloop.idx))
            raw         == hostCommits(held, targetDate(curYear), nextDay(curYear))
            repoCommits == getCommitsForRepoOnDate(repoAt(cloop.idx), raw)
        IN  /\ commits' = repoCommits \o commits
            /\ Traffic({req}, {})
            /\ AnsweredFrom(req, held, raw, repoCommits)
            /\ nitems' = nitems + Len(held)
    /\ cloop' = [cloop EXCEPT !.st = "delay"]
    /\ UNCHANGED <<hostVars, frontVars, impl, month, day, startYear, endYear,
                   pc, repos, fyear,
                   candidates, activeReposByYear, years, yi, activeRepos,
                   ploop, lloop, pullRequests, contributions, spinLog, nfail>>

\* CommitAPI: a commits request is answered; push, then the pacing delay
CommitsArrive ==
    /\ pc = "fetch"
    /\ cloop.st = "req"
    /\ \E held \in CommitsHeld(curYear) :
        LET req         == CommitsReq(curYear, repoAt(cloop.idx))
            raw         == hostCommits(held, targetDate(curYear), nextDay(curYear))
            repoCommits == getCommitsForRepoOnDate(repoAt(cloop.idx), raw)
        IN  /\ commits' = commits \o repoCommits
            /\ Traffic({req}, {})
            /\ AnsweredFrom(req, held, raw, repoCommits)
            /\ nitems' = nitems + Len(held)
    /\ cloop' = [cloop EXCEPT !.st = "delay"]
    /\ UNCHANGED <<hostVars, frontVars, impl, month, day, startYear, endYear,
                   pc, repos, fyear,
                   candidates, activeReposByYear, years, yi, activeRepos,
                   ploop, lloop, pullRequests, contributions, spinLog, nfail>>

\* a variant whose catch sits outside the loop: the first failure ends it
CommitsFail_abortLoop ==
    /\ pc = "fetch"
    /\ cloop.st = "req"
    /\ nfail + nitems < quota
    /\ cloop' = [cloop EXCEPT !.st = "done"]
    /\ Traffic({CommitsReq(curYear, repoAt(cloop.idx))}, {})
    /\ Answered(CommitsReq(curYear, repoAt(cloop.idx)), FALSE, <<>>, <<>>)
    /\ nfail' = nfail + 1
    /\ UNCHANGED <<hostVars, frontVars, impl, month, day, startYear, endYear,
                   pc, repos, fyear,
                   candidates, activeReposByYear, years, yi, activeRepos,
                   ploop, lloop, commits, pullRequests, contributions,
                   spinLog, nitems>>

\* a variant without any catch: the error leaves getContributionsOnDate
CommitsFail_rethrow ==
    /\ pc = "fetch"
    /\ cloop.st = "req"
    /\ nfail + nitems < quota
    /\ pc' = "failed"
    /\ spinLog' = Append(spinLog, SpinStopFailed)
    /\ Traffic({CommitsReq(curYear, repoAt(cloop.idx))}, {})
    /\ Answered(CommitsReq(curYear, repoAt(cloop.idx)), FALSE, <<>>, <<>>)
    /\ nfail' = nfail + 1
    /\ UNCHANGED <<hostVars, frontVars, impl, month, day, startYear, endYear,
                   repos, fyear,
                   candidates, activeReposByYear, years, yi, activeRepos,
                   cloop, ploop, lloop, commits, pullRequests, contributions,
                   nitems>>

\* a variant that asks again for the same repository after a failure
CommitsFail_retry ==
    /\ pc = "fetch"
    /\ cloop.st = "req"
    /\ nfail + nitems < quota
    /\ Traffic({CommitsReq(curYear, repoAt(cloop.idx))},
               {CommitsReq(curYear, repoAt(cloop.idx))})
    /\ Answered(CommitsReq(curYear, repoAt(cloop.idx)), FALSE, <<>>, <<>>)
    /\ nfail' = nfail + 1
    /\ UNCHANGED <<hostVars, frontVars, impl, month, day, startYear, endYear,
                   pc, repos, fyear,
                   candidates, activeReposByYear, years, yi, activeRepos,
                   cloop, ploop, lloop, commits, pullRequests, contributions,
                   spinLog, nitems>>

\* CommitAPI: a commits request throws; caught, warned, next repository
CommitsFail ==
    /\ pc = "fetch"
    /\ cloop.st = "req"
    /\ nfail + nitems < quota
    /\ cloop' = nextIteration(cloop, "req")
    /\ Traffic({CommitsReq(curYear, repoAt(cloop.idx))}, nextCommitsReq(cloop))
    /\ Answered(CommitsReq(curYear, repoAt(cloop.idx)), FALSE, <<>>, <<>>)
    /\ nfail' = nfail + 1
    /\ UNCHANGED <<hostVars, frontVars, impl, month, day, startYear, endYear,
                   pc, repos, fyear,
                   candidates, activeReposByYear, years, yi, activeRepos,
                   ploop, lloop, commits, pullRequests, contributions,
                   spinLog, nitems>>

\* CommitAPI: the pacing delay elapses; next repository
CommitsDelayDone ==
    /\ pc = "fetch"
    /\ cloop.st = "delay"
    /\ cloop' = nextIteration(cloop, "req")
    /\ Traffic({}, nextCommitsReq(cloop))
    /\ UNCHANGED <<hostVars, frontVars, impl, month, day, startYear, endYear,
                   pc, repos, fyear,
                   candidates, activeReposByYear, years, yi, activeRepos,
                   ploop, lloop, commits, pullRequests, contributions,
                   spinLog, outcome, nfail, nitems>>
    /\ response' = NoResponse

\* PullRequestAPI: a pulls request is answered; filter, push, pacing delay
PullsArrive ==
    /\ pc = "fetch"
    /\ ploop.st = "req"
    /\ \E raw \in PullAnswers(curYear) :
        LET req     == PullsReq(curYear, repoAt(ploop.idx))
            repoPRs == getPullRequestsForRepoOnDate(repoAt(ploop.idx),
                           targetDate(curYear), nextDay(curYear), raw)
        IN  /\ pullRequests' = pullRequests \o repoPRs
            /\ Traffic({req}, {})
            /\ Answered(req, TRUE, raw, repoPRs)
            /\ nitems' = nitems + Len(raw)
    /\ ploop' = [ploop EXCEPT !.st = "delay"]
    /\ UNCHANGED <<hostVars, frontVars, impl, month, day, startYear, endYear,
                   pc, repos, fyear,
                   candidates, activeReposByYear, years, yi, activeRepos,
                   cloop, lloop, commits, contributions, spinLog, nfail>>

\* a variant in which a failed pull-requests request leaves its loop waiting
PullsFail_stall ==
    /\ pc = "fetch"
    /\ ploop.st = "req"
    /\ nfail + nitems < quota
    /\ ploop' = [ploop EXCEPT !.st = "stalled"]
    /\ Traffic({PullsReq(curYear, repoAt(ploop.idx))}, {})
    /\ Answered(PullsReq(curYear, repoAt(ploop.idx)), FALSE, <<>>, <<>>)
    /\ nfail' = nfail + 1
    /\ UNCHANGED <<hostVars, frontVars, impl, month, day, startYear, endYear,
                   pc, repos, fyear,
                   candidates, activeReposByYear, years, yi, activeRepos,
                   cloop, lloop, commits, pullRequests, contributions,
                   spinLog, nitems>>

\* PullRequestAPI: a pulls request throws; caught, warned, next repository
PullsFail ==
    /\ pc = "fetch"
    /\ ploop.st = "req"
    /\ nfail + nitems < quota
    /\ ploop' = nextIteration(ploop, "req")
    /\ Traffic({PullsReq(curYear, repoAt(ploop.idx))}, nextPullsReq(ploop))
    /\ Answered(PullsReq(curYear, repoAt(ploop.idx)), FALSE, <<>>, <<>>)
    /\ nfail' = nfail + 1
    /\ UNCHANGED <<hostVars, frontVars, impl, month, day, startYear, endYear,
                   pc, repos, fyear,
                   candidates, activeReposByYear, years, yi, activeRepos,
                   cloop, lloop, commits, pullRequests, contributions,
                   spinLog, nitems>>

\* PullRequestAPI: the pacing delay elapses; next repository
PullsDelayDone ==
    /\ pc = "fetch"
    /\ ploop.st = "delay"
    /\ ploop' = nextIteration(ploop, "req")
    /\ Traffic({}, nextPullsReq(ploop))
    /\ UNCHANGED <<hostVars, frontVars, impl, month, day, startYear, endYear,
                   pc, repos, fyear,
                   candidates, activeReposByYear, years, yi, activeRepos,
                   cloop, lloop, commits, pullRequests, contributions,
                   spinLog, outcome, nfail, nitems>>
    /\ response' = NoResponse

\* a variant that appends one entry for the year's commits and another for
\* its pull requests
withYear_perKind(list, year, cs, prs) ==
    LET withCommits ==
            IF Len(cs) > 0
            THEN Append(list, [year |-> year, commits |-> cs, pullRequests |-> <<>>])
            ELSE list
    IN  IF Len(prs) > 0
        THEN Append(withCommits,
                    [year |-> year, commits |-> <<>>, pullRequests |-> prs])
        ELSE withCommits

\* a variant that keeps the year whatever it holds
withYear_always(list, year, cs, prs) ==
    Append(list, [year |-> year, commits |-> cs, pullRequests |-> prs])

\* the year's contribution, kept only when it holds something
withYear(list, year, cs, prs) ==
    IF Len(cs) > 0 \/ Len(prs) > 0
    THEN Append(list, [year |-> year, commits |-> cs, pullRequests |-> prs])
    ELSE list

\* a variant that goes on as soon as one of the two loops has returned
JoinYear_race ==
    /\ pc = "fetch"
    /\ cloop.st = "done" \/ ploop.st = "done"
    /\ contributions' = withYear(contributions, curYear, commits, pullRequests)
    /\ yi' = yi + 1
    /\ pc' = "year_loop"
    /\ cloop' = [idx |-> 0, st |-> "idle"]
    /\ ploop' = [idx |-> 0, st |-> "idle"]
    /\ commits' = <<>>
    /\ pullRequests' = <<>>
    /\ UNCHANGED <<hostVars, frontVars, impl, month, day, startYear, endYear,
                   repos, fyear,
                   candidates, activeReposByYear, years, activeRepos, lloop,
                   spinLog, inflight, issued, reissued, outcome, nfail, nitems>>
    /\ response' = NoResponse

\* ContributionsAPI: Promise.all resolves once both loops have returned;
\* the year is pushed when it is not empty
JoinYear ==
    /\ pc = "fetch"
    /\ cloop.st = "done"
    /\ ploop.st = "done"
    /\ contributions' = withYear(contributions, curYear, commits, pullRequests)
    /\ yi' = yi + 1
    /\ pc' = "year_loop"
    /\ cloop' = [idx |-> 0, st |-> "idle"]
    /\ ploop' = [idx |-> 0, st |-> "idle"]
    /\ commits' = <<>>
    /\ pullRequests' = <<>>
    /\ UNCHANGED <<hostVars, frontVars, impl, month, day, startYear, endYear,
                   repos, fyear,
                   candidates, activeReposByYear, years, activeRepos, lloop,
                   spinLog, inflight, issued, reissued, outcome, nfail, nitems>>
    /\ response' = NoResponse

\* legacy GitHubAPI: the next entry of the plan; the first commits request
LegacyBeginYear ==
    /\ pc = "year_loop"
    /\ impl = "legacy"
    /\ yi <= Len(years)
    /\ activeRepos' = activeReposByYear[years[yi]]
    /\ IF Len(activeRepos') > 0
       THEN /\ lloop' = [idx |-> 1, st |-> "commits"]
            /\ Traffic({}, { CommitsReq(years[yi], activeRepos'[1].name) })
            /\ pc' = "fetch"
            /\ yi' = yi
       ELSE /\ yi' = yi + 1
            /\ UNCHANGED <<lloop, inflight, issued, reissued, pc>>
    /\ commits' = <<>>
    /\ pullRequests' = <<>>
    /\ UNCHANGED <<hostVars, frontVars, impl, month, day, startYear, endYear,
                   repos, fyear,
                   candidates, activeReposByYear, years, cloop, ploop,
                   contributions, spinLog, outcome, nfail, nitems>>
    /\ response' = NoResponse

\* a variant that asks for the pull requests whatever the commits were
LegacyCommitsArrive_always ==
    /\ pc = "fetch"
    /\ lloop.st = "commits"
    /\ \E held \in CommitsHeld(curYear) :
        LET req         == CommitsReq(curYear, repoAt(lloop.idx))
            raw         == hostCommits(held, targetDate(curYear), nextDay(curYear))
            repoCommits == getCommitsForRepoOnDate(repoAt(lloop.idx), raw)
        IN  /\ commits' = commits \o repoCommits
            /\ lloop' = [lloop EXCEPT !.st = "pulls"]
            /\ Traffic({req}, {PullsReq(curYear, repoAt(lloop.idx))})
            /\ AnsweredFrom(req, held, raw, repoCommits)
            /\ nitems' = nitems + Len(held)
    /\ UNCHANGED <<hostVars, frontVars, impl, month, day, startYear, endYear,
                   pc, repos, fyear,
                   candidates, activeReposByYear, years, yi, activeRepos,
                   cloop, ploop, pullRequests, contributions, spinLog, nfail>>

\* legacy: the commits request is answered; push, then the pulls request
\* when commits were found, else the pacing delay
LegacyCommitsArrive ==
    /\ pc = "fetch"
    /\ lloop.st = "commits"
    /\ \E held \in CommitsHeld(curYear) :
        LET req         == CommitsReq(curYear, repoAt(lloop.idx))
            raw         == hostCommits(held, targetDate(curYear), nextDay(curYear))
            repoCommits == getCommitsForRepoOnDate(repoAt(lloop.idx), raw)
        IN  /\ commits' = commits \o repoCommits
            /\ IF Len(repoCommits) > 0
               THEN /\ lloop' = [lloop EXCEPT !.st = "pulls"]
                    /\ Traffic({req}, {PullsReq(curYear, repoAt(lloop.idx))})
               ELSE /\ lloop' = [lloop EXCEPT !.st = "delay"]
                    /\ Traffic({req}, {})
            /\ AnsweredFrom(req, held, raw, repoCommits)
            /\ nitems' = nitems + Len(held)
    /\ UNCHANGED <<hostVars, frontVars, impl, month, day, startYear, endYear,
                   pc, repos, fyear,
                   candidates, activeReposByYear, years, yi, activeRepos,
                   cloop, ploop, pullRequests, contributions, spinLog, nfail>>

\* legacy: the commits request throws; caught, warned, next repository
LegacyCommitsFail ==
    /\ pc = "fetch"
    /\ lloop.st = "commits"
    /\ nfail + nitems < quota
    /\ lloop' = nextIteration(lloop, "commits")
    /\ Traffic({CommitsReq(curYear, repoAt(lloop.idx))}, nextCommitsReq(lloop))
    /\ Answered(CommitsReq(curYear, repoAt(lloop.idx)), FALSE, <<>>, <<>>)
    /\ nfail' = nfail + 1
    /\ UNCHANGED <<hostVars, frontVars, impl, month, day, startYear, endYear,
                   pc, repos, fyear,
                   candidates, activeReposByYear, years, yi, activeRepos,
                   cloop, ploop, commits, pullRequests, contributions,
                   spinLog, nitems>>

\* legacy: the pulls request is answered; filter, push, pacing delay
LegacyPullsArrive ==
    /\ pc = "fetch"
    /\ lloop.st = "pulls"
    /\ \E raw \in PullAnswers(curYear) :
        LET req     == PullsReq(curYear, repoAt(lloop.idx))
            repoPRs == getPullRequestsForRepoOnDate(repoAt(lloop.idx),
                           targetDate(curYear), nextDay(curYear), raw)
        IN  /\ pullRequests' = pullRequests \o repoPRs
            /\ Traffic({req}, {})
            /\ Answered(req, TRUE, raw, repoPRs)
            /\ nitems' = nitems + Len(raw)
    /\ lloop' = [lloop EXCEPT !.st = "delay"]
    /\ UNCHANGED <<hostVars, frontVars, impl, month, day, startYear, endYear,
                   pc, repos, fyear,
                   candidates, activeReposByYear, years, yi, activeRepos,
                   cloop, ploop, commits, contributions, spinLog, nfail>>

\* legacy: the pulls request throws; caught (the commits already pushed
\* stay), warned, next repository
LegacyPullsFail ==
    /\ pc = "fetch"
    /\ lloop.st = "pulls"
    /\ nfail + nitems < quota
    /\ lloop' = nextIteration(lloop, "commits")
    /\ Traffic({PullsReq(curYear, repoAt(lloop.idx))}, nextCommitsReq(lloop))
    /\ Answered(PullsReq(curYear, repoAt(lloop.idx)), FALSE, <<>>, <<>>)
    /\ nfail' = nfail + 1
    /\ UNCHANGED <<hostVars, frontVars, impl, month, day, startYear, endYear,
                   pc, repos, fyear,
                   candidates, activeReposByYear, years, yi, activeRepos,
                   cloop, ploop, commits, pullRequests, contributions,
                   spinLog, nitems>>

\* legacy: the pacing delay elapses; next repository
LegacyDelayDone ==
    /\ pc = "fetch"
    /\ lloop.st = "delay"
    /\ lloop' = nextIteration(lloop, "commits")
    /\ Traffic({}, nextCommitsReq(lloop))
    /\ UNCHANGED <<hostVars, frontVars, impl, month, day, startYear, endYear,
                   pc, repos, fyear,
                   candidates, activeReposByYear, years, yi, activeRepos,
                   cloop, ploop, commits, pullRequests, contributions,
                   spinLog, outcome, nfail, nitems>>
    /\ response' = NoResponse

\* legacy: getContributionsFromActiveRepos returns; the year is pushed when
\* it is not empty
LegacyYearReturns ==
    /\ pc = "fetch"
    /\ lloop.st = "done"
    /\ contributions' = withYear(contributions, curYear, commits, pullRequests)
    /\ yi' = yi + 1
    /\ pc' = "year_loop"
    /\ lloop' = [idx |-> 0, st |-> "idle"]
    /\ commits' = <<>>
    /\ pullRequests' = <<>>
    /\ UNCHANGED <<hostVars, frontVars, impl, month, day, startYear, endYear,
                   repos, fyear,
                   candidates, activeReposByYear, years, activeRepos, cloop,
                   ploop, spinLog, inflight, issued, reissued, outcome, nfail,
                   nitems>>
    /\ response' = NoResponse

\* a variant that returns without stopping the spinner
ReturnContributions_noStop ==
    /\ pc = "year_loop"
    /\ yi > Len(years)
    /\ pc' = "done"
    /\ spinLog' = spinLog
    /\ UNCHANGED <<hostVars, frontVars, impl, month, day, startYear, endYear,
                   repos, fyear,
                   candidates, activeReposByYear, years, yi, activeRepos,
                   cloop, ploop, lloop, commits, pullRequests, contributions,
                   inflight, issued, reissued, outcome, nfail, nitems>>
    /\ response' = NoResponse

\* every year of the plan was processed: the spinner stops (modular) and
\* the contributions are returned
ReturnContributions ==
    /\ pc = "year_loop"
    /\ yi > Len(years)
    /\ pc' = "done"
    /\ spinLog' = IF impl = "modular"
                  THEN Append(spinLog, SpinStopSuccess) ELSE spinLog
    /\ UNCHANGED <<hostVars, frontVars, impl, month, day, startYear, endYear,
                   repos, fyear,
                   candidates, activeReposByYear, years, yi, activeRepos,
                   cloop, ploop, lloop, commits, pullRequests, contributions,
                   inflight, issued, reissued, outcome, nfail, nitems>>
    /\ response' = NoResponse


Next ==
    \/ StartCall
    \/ InventoryFails
    \/ InventoryArrives
    \/ BeginYear
    \/ CommitsArrive
    \/ CommitsFail
    \/ CommitsDelayDone
    \/ PullsArrive
    \/ PullsFail
    \/ PullsDelayDone
    \/ JoinYear
    \/ LegacyBeginYear
    \/ LegacyCommitsArrive
    \/ LegacyCommitsFail
    \/ LegacyPullsArrive
    \/ LegacyPullsFail
    \/ LegacyDelayDone
    \/ LegacyYearReturns
    \/ ReturnContributions

Spec == Init /\ [][Next]_vars

\* SpecCap: a call of ContributionsAPI.getContributionsOnDate for a user with
\* more repositories than the per-year cap, all created in the first year of
\* the range
CapInventories ==
    { [i \in 1..(MAX_REPOS_PER_YEAR + 1) |-> HostRepo(i, <<2023, 2023, 2024>>)] }

CapQuotas == { 1 }

InitCap ==
    /\ impl = "modular"
    /\ \E md \in RunDates : month = md[1] /\ day = md[2]
    /\ \E r \in RunRanges : startYear = r[1] /\ endYear = r[2]
    /\ pc = "init"
    /\ repos = <<>>
    /\ fyear = 0
    /\ candidates = <<>>
    /\ activeReposByYear = EmptyRecord
    /\ RunIdle
    /\ hostRepos \in CapInventories
    /\ quota \in CapQuotas
    /\ FrontIdle

NextCap ==
    \/ StartCall
    \/ InventoryFails
    \/ InventoryArrives
    \/ BeginYear
    \/ CommitsArrive
    \/ CommitsFail
    \/ CommitsDelayDone
    \/ PullsArrive
    \/ PullsFail
    \/ PullsDelayDone
    \/ JoinYear
    \/ ReturnContributions

SpecCap == InitCap /\ [][NextCap]_vars

\* the inventories of fewer than MaxRepos repositories
FairInventories == { inv \in HostInventories : Len(inv) < MaxRepos }

InitFair ==
    /\ impl \in Impls
    /\ \E md \in RunDates : month = md[1] /\ day = md[2]
    /\ \E r \in RunRanges : startYear = r[1] /\ endYear = r[2]
    /\ pc = "init"
    /\ repos = <<>>
    /\ fyear = 0
    /\ candidates = <<>>
    /\ activeReposByYear = EmptyRecord
    /\ RunIdle
    /\ hostRepos \in FairInventories
    /\ quota = MaxEvents
    /\ FrontIdle

\* the same call on an event loop that runs every continuation that is ready
\* and a host that answers every request: a step that stays possible is
\* eventually taken
FairSpec == InitFair /\ [][Next]_vars /\ WF_vars(Next)

-----------------------------------------------------------------------------
(* Claims about one call of getContributionsOnDate, checked under Spec *)

IsDetail(req) == req[1] \in {"commits", "pulls"}

\* the answered request returned no item / at least one item
ReturnedNone(req) ==
    req \in DOMAIN outcome /\ outcome[req].ok /\ outcome[req].n = 0
ReturnedSome(req) ==
    req \in DOMAIN outcome /\ outcome[req].ok /\ outcome[req].n >= 1
Failed(req) == req \in DOMAIN outcome /\ ~outcome[req].ok

\* the planned (year, repository name) pairs
PlannedPairs ==
    UNION { { <<y, activeReposByYear[y][j].name>> :
              j \in 1..Len(activeReposByYear[y]) } :
            y \in DOMAIN activeReposByYear }

\* the items of repository n in the result's entry for year y
ResultCommitsOf(y, n) ==
    { contributions[c].commits[k] :
        <<c, k>> \in { p \in (1..Len(contributions)) \X (1..MaxEvents) :
                       /\ contributions[p[1]].year = y
                       /\ p[2] <= Len(contributions[p[1]].commits)
                       /\ contributions[p[1]].commits[p[2]].repo = n } }

ResultPullsOf(y, n) ==
    { contributions[c].pullRequests[k] :
        <<c, k>> \in { p \in (1..Len(contributions)) \X (1..MaxEvents) :
                       /\ contributions[p[1]].year = y
                       /\ p[2] <= Len(contributions[p[1]].pullRequests)
                       /\ contributions[p[1]].pullRequests[p[2]].repo = n } }

KeptOf(req) == { outcome[req].kept[k] : k \in 1..Len(outcome[req].kept) }

\* C4: in the pipeline the CLI uses (ContributionsAPI), a candidate
\* repository whose commits request returned zero commits gets no
\* pull-requests request in that year
C4_NoPullsAfterZeroCommits ==
    impl = "modular" =>
        \A req \in DOMAIN outcome :
            (req[1] = "commits" /\ ReturnedNone(req))
                => PullsReq(req[2], req[3]) \notin issued

\* C5: in the legacy getContributionsFromActiveRepos every candidate
\* repository gets exactly one commits request; a pull-requests request is
\* issued iff the commits request returned at least one commit, and only
\* after the commits request has completed
C5_LegacyPullsIffCommits ==
    impl = "legacy" =>
        /\ ~reissued
        /\ \A req \in issued :
             req[1] = "pulls" =>
                /\ CommitsReq(req[2], req[3]) \notin inflight
                /\ ReturnedSome(CommitsReq(req[2], req[3]))
        /\ \A req \in DOMAIN outcome :
             (req[1] = "commits" /\ ReturnedSome(req))
                => PullsReq(req[2], req[3]) \in issued
        /\ pc = "done" =>
             \A p \in PlannedPairs : CommitsReq(p[1], p[2]) \in DOMAIN outcome

\* C5 witness: a legacy run in which one repository had commits and got its
\* pull-requests request, and another had none and got no such request
C5_Witness ==
    /\ impl = "legacy"
    /\ pc = "done"
    /\ \E a, b \in DOMAIN outcome :
         /\ a[1] = "commits" /\ ReturnedSome(a)
         /\ PullsReq(a[2], a[3]) \in DOMAIN outcome
         /\ b[1] = "commits" /\ ReturnedNone(b)
         /\ PullsReq(b[2], b[3]) \notin issued

\* C6: when the commits request of one candidate repository throws, the
\* other candidate repositories of that year are still fetched, and the
\* result holds for that year every commit and pull request found in them
C6_FailureIsolated ==
    pc = "done" =>
        \A f \in DOMAIN outcome :
            (f[1] = "commits" /\ Failed(f)) =>
                /\ \A p \in PlannedPairs :
                     p[1] = f[2] => CommitsReq(p[1], p[2]) \in DOMAIN outcome
                /\ \A g \in DOMAIN outcome :
                     (IsDetail(g) /\ g[2] = f[2] /\ g[3] # f[3] /\ outcome[g].ok) =>
                        KeptOf(g) \subseteq
                            (IF g[1] = "commits"
                             THEN ResultCommitsOf(g[2], g[3])
                             ELSE ResultPullsOf(g[2], g[3]))

\* C6 witness: a finished run in which the commits request of the first
\* candidate of a year failed and a later candidate of that year had a commit
C6_Witness ==
    /\ pc = "done"
    /\ \E f, g \in DOMAIN outcome :
         /\ f[1] = "commits" /\ Failed(f)
         /\ g[1] = "commits" /\ g[2] = f[2] /\ g[3] > f[3]
         /\ ReturnedSome(g)

\* C7: a repository one of whose detail requests failed contributes neither
\* commits nor pull requests to that year's entry of the result
C7_FailedRepoContributesNothing ==
    pc = "done" =>
        \A f \in DOMAIN outcome :
            (IsDetail(f) /\ Failed(f)) =>
                /\ ResultCommitsOf(f[2], f[3]) = {}
                /\ ResultPullsOf(f[2], f[3]) = {}

\* C8: when the inventory request fails the call aborts: the error reaches
\* the caller, no plan exists and no detail request is ever issued
C8_InventoryFailureAborts ==
    Failed(InventoryReq) =>
        /\ pc = "failed"
        /\ repos = <<>>
        /\ activeReposByYear = EmptyRecord
        /\ years = <<>>
        /\ issued = {InventoryReq}
        /\ inflight = {}
        /\ contributions = <<>>

\* C8 witness: the call has thrown
C8_Witness == pc = "failed" /\ Failed(InventoryReq)

\* C9: the inventory stage is the only failure exit: once the inventory
\* request has succeeded the call never throws, whatever detail requests
\* fail, and it can always go on until it returns
C9_OnlyInventoryFails ==
    /\ pc = "failed" => Failed(InventoryReq)
    /\ (InventoryReq \in DOMAIN outcome /\ outcome[InventoryReq].ok) =>
          /\ pc # "failed"
          /\ pc # "done" => ENABLED Next

\* C9 witness: a call that returned although two detail requests failed
C9_Witness ==
    /\ pc = "done"
    /\ Cardinality({ f \in DOMAIN outcome : IsDetail(f) /\ Failed(f) }) >= 2

\* C10: ContributionsAPI walks the planned years newest first: a detail
\* request for year Y is issued only after every detail request of every
\* greater planned year has completed
C10_NewestFirst ==
    impl = "modular" =>
        \A req \in issued :
            IsDetail(req) =>
                \A y \in DOMAIN activeReposByYear :
                    y > req[2] =>
                        \A j \in 1..Len(activeReposByYear[y]) :
                            /\ CommitsReq(y, activeReposByYear[y][j].name)
                                    \in DOMAIN outcome
                            /\ PullsReq(y, activeReposByYear[y][j].name)
                                    \in DOMAIN outcome

\* C10 witness: requests of the older year are in flight and the newer
\* year is in the plan
C10_Witness ==
    /\ impl = "modular"
    /\ Cardinality(DOMAIN activeReposByYear) >= 2
    /\ \E req \in inflight :
         IsDetail(req) /\ \E y \in DOMAIN activeReposByYear : y > req[2]

\* C11: the list returned by getContributionsOnDate is sorted by year,
\* newest first, in both implementations
C11_ResultNewestFirst ==
    \A i, j \in 1..Len(contributions) :
        i < j => contributions[i].year > contributions[j].year

\* the years that have an entry in the result
ResultYears == { contributions[c].year : c \in 1..Len(contributions) }

\* the requests of year y that were answered with something kept
YieldOf(y) ==
    { req \in DOMAIN outcome :
        IsDetail(req) /\ req[2] = y /\ outcome[req].ok /\ Len(outcome[req].kept) > 0 }

\* C12: every entry of the result holds at least one commit or one pull
\* request, and a planned year whose requests yielded nothing has no entry
C12_NoEmptyYear ==
    /\ \A c \in 1..Len(contributions) :
         Len(contributions[c].commits) > 0 \/ Len(contributions[c].pullRequests) > 0
    /\ pc = "done" =>
         \A y \in DOMAIN activeReposByYear :
             YieldOf(y) = {} => y \notin ResultYears

\* C12 witness: a finished call whose plan has a year that yielded nothing,
\* next to a year that is in the result
C12_Witness ==
    /\ pc = "done"
    /\ Len(contributions) > 0
    /\ \E y \in DOMAIN activeReposByYear : YieldOf(y) = {} /\ y \notin ResultYears

\* the day the call asks about in year y: 24 hours from the local midnight
\* that new Date(y, month - 1, day) denotes
InTargetDay(t, y) ==
    /\ t >= newDate(y, month - 1, day)
    /\ t < newDate(y, month - 1, day) + 24

\* an answer of the given kind is being processed
Processing(kind) == Len(response.req) > 0 /\ response.req[1] = kind

\* the pull requests / commits of repository n collected for the year in
\* progress
CollectedPullsOf(n) == SelectSeq(pullRequests, LAMBDA pr : pr.repo = n)
CollectedCommitsOf(n) == SelectSeq(commits, LAMBDA c : c.repo = n)

\* C13: of the pull requests the host returns for a repository, exactly those
\* created inside the target day of the year are taken into the year's
\* result, in the host's order
C13_PullWindow ==
    /\ Processing("pulls") =>
         LET y      == response.req[2]
             n      == response.req[3]
             inside == SelectSeq(response.raw,
                                 LAMBDA pr : InTargetDay(pr.created_at, y))
         IN  CollectedPullsOf(n) =
                 [k \in 1..Len(inside) |->
                     [url |-> inside[k].html_url, repo |-> n,
                      createdAt |-> inside[k].created_at]]
    /\ pc = "done" =>
         \A req \in DOMAIN outcome :
             (req[1] = "pulls" /\ outcome[req].ok) =>
                 KeptOf(req) = ResultPullsOf(req[2], req[3])

\* C13 witness: the host returned a pull request of the target day together
\* with one outside it
C13_Witness ==
    /\ Processing("pulls")
    /\ Len(response.kept) >= 1
    /\ Len(response.raw) > Len(response.kept)

OnTargetDate(t, y) ==
    getFullYear(t) = y /\ monthOf(t) = month /\ dayOfMonth(t) = day

\* C15: every commit and pull request of the entry for year Y is dated in
\* year Y on the target month and day, also for February 29
C15_ItemsOnTargetDate ==
    \A c \in 1..Len(contributions) :
        /\ \A k \in 1..Len(contributions[c].commits) :
             OnTargetDate(contributions[c].commits[k].pushedDate,
                          contributions[c].year)
        /\ \A k \in 1..Len(contributions[c].pullRequests) :
             OnTargetDate(contributions[c].pullRequests[k].createdAt,
                          contributions[c].year)

InventoryOk == InventoryReq \in DOMAIN outcome /\ outcome[InventoryReq].ok

\* C16: with startYear > endYear, or with an inventory of zero
\* repositories, a call whose inventory request succeeded returns an empty
\* result and does not throw
C16_EmptyInputsEmptyResult ==
    (InventoryOk /\ (startYear > endYear \/ Len(repos) = 0)) =>
        /\ pc \in {"year_loop", "done"}
        /\ ENABLED Next \/ pc = "done"
        /\ activeReposByYear = EmptyRecord
        /\ issued = {InventoryReq}
        /\ contributions = <<>>

\* C16 witness: a call with startYear > endYear over a non-empty inventory
\* has returned
C16_Witness ==
    /\ pc = "done"
    /\ InventoryOk
    /\ startYear > endYear
    /\ Len(repos) > 0

\* C17: no request is retried: the inventory request and, for each planned
\* year and repository, the commits request and the pull-requests request
\* are each issued at most once, also after a failure
C17_NoRetry ==
    /\ ~reissued
    /\ \A req \in DOMAIN outcome : req \notin inflight
    /\ \A req \in issued :
         \/ req = InventoryReq
         \/ /\ IsDetail(req)
            /\ req[2] \in DOMAIN activeReposByYear
            /\ \E j \in 1..Len(activeReposByYear[req[2]]) :
                 activeReposByYear[req[2]][j].name = req[3]

\* C17 witness: a detail request failed and the loop has gone on to the
\* request of the same kind for another repository
C17_Witness ==
    \E f \in DOMAIN outcome :
        /\ IsDetail(f) /\ Failed(f)
        /\ \E g \in inflight : g[1] = f[1] /\ g[2] = f[2] /\ g[3] # f[3]

\* the step issues request req in a place where the loop may do so: for the
\* first candidate of a year, after the pacing delay of the previous
\* candidate, or as the second call for the same candidate (legacy)
IssuedInPlace(req) ==
    \/ pc = "year_loop"
    \/ impl = "modular" /\ req[1] = "commits" /\ cloop.st = "delay"
    \/ impl = "modular" /\ req[1] = "pulls" /\ ploop.st = "delay"
    \/ impl = "legacy" /\ req[1] = "commits" /\ lloop.st = "delay"
    \/ impl = "legacy" /\ req[1] = "pulls" /\ lloop.st = "commits"

\* C18: in every fetch loop the pacing delay elapses between the calls for
\* one candidate repository and the request for the next, whatever the
\* outcome of the calls
C18_DelayBeforeNextRepo ==
    [][ \A req \in issued' \ issued : IsDetail(req) => IssuedInPlace(req) ]_vars

\* what the requests of the given kind kept for the candidates of year y
\* from position j on, in candidate order
RECURSIVE KeptFrom(_, _, _)
KeptFrom(kind, y, j) ==
    IF j > Len(activeReposByYear[y])
    THEN <<>>
    ELSE LET req == <<kind, y, activeReposByYear[y][j].name>>
         IN  (IF req \in DOMAIN outcome /\ outcome[req].ok
              THEN outcome[req].kept ELSE <<>>)
             \o KeptFrom(kind, y, j + 1)

\* C19: inside an entry of the result the commits, and likewise the pull
\* requests, stand in the order of the year's candidate list, and those of
\* one repository in the order the host returned them
C19_RepositoryOrder ==
    \A c \in 1..Len(contributions) :
        /\ contributions[c].commits =
               KeptFrom("commits", contributions[c].year, 1)
        /\ contributions[c].pullRequests =
               KeptFrom("pulls", contributions[c].year, 1)
        /\ \A k \in 1..(Len(contributions[c].commits) - 1) :
             contributions[c].commits[k].repo = contributions[c].commits[k + 1].repo
                => contributions[c].commits[k].url < contributions[c].commits[k + 1].url

\* C19 witness: an entry of the result with commits of two repositories
C19_Witness ==
    \E c \in 1..Len(contributions) :
        /\ Len(contributions[c].commits) >= 2
        /\ contributions[c].commits[1].repo # contributions[c].commits[2].repo

\* every request of both kinds for the candidates of year y was answered
YearComplete(y) ==
    \A j \in 1..Len(activeReposByYear[y]) :
        /\ CommitsReq(y, activeReposByYear[y][j].name) \in DOMAIN outcome
        /\ PullsReq(y, activeReposByYear[y][j].name) \in DOMAIN outcome

\* C20: in ContributionsAPI the commit loop and the pull-request loop of a
\* year are both finished before the year's result is looked at and before
\* the next year starts; at most two requests are in flight, one of each
\* loop, and they belong to the year in progress
C20_TwoLoopsJoined ==
    impl = "modular" =>
        /\ Cardinality(inflight) <= 2
        /\ \A r \in inflight :
             IsDetail(r) =>
                /\ pc = "fetch"
                /\ r[2] = curYear
                /\ \A q \in inflight : q[1] = r[1] => q = r
        /\ pc \in {"year_loop", "done"} =>
             /\ inflight = {}
             /\ \A k \in 1..Len(years) : k < yi => YearComplete(years[k])
        /\ \A y \in ResultYears : YearComplete(y)

\* C20 witness: two requests in flight while the commit loop is already at
\* a later repository than the pull-request loop
C20_Witness ==
    /\ impl = "modular"
    /\ pc = "fetch"
    /\ Cardinality(inflight) = 2
    /\ cloop.st = "req" /\ ploop.st = "req"
    /\ cloop.idx > ploop.idx

\* C21: the inventory request is issued exactly once and has succeeded
\* before any commits or pull-requests request is issued; the plan is built
\* once, from that inventory: between two years and at the end it is what
\* findActiveReposOnDate made of it; every commits or pull-requests request
\* targets a (year, repository) pair of the plan
C21_InventoryThenPlanThenDetails ==
    /\ (pc # "init") <=> (InventoryReq \in issued)
    /\ ~reissued
    /\ (\E req \in issued : IsDetail(req)) =>
         (InventoryOk /\ InventoryReq \notin inflight)
    /\ IF InventoryOk
       THEN /\ repos = outcome[InventoryReq].kept
            /\ pc # "fetch" =>
                 activeReposByYear =
                     findActiveReposOnDate(impl, outcome[InventoryReq].kept,
                                           month, day, startYear, endYear)
       ELSE activeReposByYear = EmptyRecord
    /\ \A req \in issued :
         IsDetail(req) =>
            /\ req[2] \in DOMAIN activeReposByYear
            /\ \E j \in 1..Len(activeReposByYear[req[2]]) :
                 activeReposByYear[req[2]][j].name = req[3]

\* C21 witness: a call has returned after detail requests for a year in
\* which the plan leaves out a repository of the inventory
C21_Witness ==
    /\ pc = "done"
    /\ \E req \in issued :
         /\ IsDetail(req)
         /\ \E k \in 1..Len(repos) : <<req[2], repos[k].name>> \notin PlannedPairs

\* the request has been answered, with a list or with a failure
IsAnswered(req) == req \in DOMAIN outcome /\ req \notin inflight

\* every fetch of the plan has been made and answered: for each planned
\* (year, repository) the commits request, and the pull-requests request
\* wherever the implementation makes one
WholePlanFetched ==
    \A y \in DOMAIN activeReposByYear :
        \A j \in 1..Len(activeReposByYear[y]) :
            LET n == activeReposByYear[y][j].name
            IN  /\ IsAnswered(CommitsReq(y, n))
                /\ (impl = "modular" \/ ReturnedSome(CommitsReq(y, n)))
                      => IsAnswered(PullsReq(y, n))

\* C23: when every host request eventually returns or fails, a call
\* eventually terminates: it returns after every planned fetch was made and
\* answered, or it throws because the inventory request failed; nothing else
\* ends it
C23_Terminates ==
    <>( /\ inflight = {}
        /\ \/ pc = "done" /\ InventoryOk /\ WholePlanFetched
           \/ pc = "failed" /\ Failed(InventoryReq) /\ issued = {InventoryReq} )

\* C23 witness: a call has returned after a plan of two years in which a
\* detail request failed
C23_Witness ==
    /\ pc = "done"
    /\ WholePlanFetched
    /\ Cardinality(DOMAIN activeReposByYear) = 2
    /\ \E req \in DOMAIN outcome : IsDetail(req) /\ Failed(req)

-----------------------------------------------------------------------------
(* SpecCli: the command line program up to its call of getContributionsOnDate *)

\* the value of a decimal digit character
DigitOf ==
    ("0" :> 0) @@ ("1" :> 1) @@ ("2" :> 2) @@ ("3" :> 3) @@ ("4" :> 4) @@
    ("5" :> 5) @@ ("6" :> 6) @@ ("7" :> 7) @@ ("8" :> 8) @@ ("9" :> 9)

isDigit(c) == c \in DOMAIN DigitOf

\* parseInt(text, 10) of a run of digit characters
RECURSIVE parseInt(_)
parseInt(text) ==
    IF text = <<>>
    THEN 0
    ELSE parseInt(SubSeq(text, 1, Len(text) - 1)) * 10 + DigitOf[text[Len(text)]]

\* /^(\d{4})-(\d{2})-(\d{2})$/ matches the text
matchesDateRegex(text) ==
    /\ Len(text) = 10
    /\ \A k \in {1, 2, 3, 4, 6, 7, 9, 10} : isDigit(text[k])
    /\ text[5] = "-"
    /\ text[8] = "-"

\* Date.prototype.getMonth and getDate
getMonth(t) == monthOf(t) - 1
getDate(t) == dayOfMonth(t)

\* parseDateString: the parsed date, or NoDate where it throws
parseDateString(dateString, clock) ==
    IF ~matchesDateRegex(dateString)
    THEN NoDate
    ELSE LET year     == parseInt(SubSeq(dateString, 1, 4))
             mon      == parseInt(SubSeq(dateString, 6, 7))
             dayNo    == parseInt(SubSeq(dateString, 9, 10))
             testDate == newDate(year, mon - 1, dayNo)
         IN  IF year < 2008 \/ year > clock.year
             THEN NoDate
             ELSE IF mon < 1 \/ mon > 12
             THEN NoDate
             ELSE IF dayNo < 1 \/ dayNo > 31
             THEN NoDate
             ELSE IF \/ getFullYear(testDate) # year
                     \/ getMonth(testDate) # mon - 1
                     \/ getDate(testDate) # dayNo
             THEN NoDate
             ELSE [year |-> year, month |-> mon, day |-> dayNo]

\* getCurrentDate
getCurrentDate(clock) ==
    [year |-> clock.year, month |-> clock.month, day |-> clock.day]

\* the days on which the program is run
Todays ==
    { [year |-> 2024, month |-> 11, day |-> 2],
      [year |-> 2024, month |-> 2, day |-> 29],
      [year |-> 2025, month |-> 3, day |-> 1] }

\* what may follow --date on the command line
DateValues ==
    {
      <<"2", "0", "1", "7", "-", "0", "9", "-", "1", "5">>,
      <<"2", "0", "2", "4", "-", "0", "2", "-", "2", "9">>,
      <<"2", "0", "2", "3", "-", "0", "2", "-", "2", "9">>,
      <<"2", "0", "2", "5", "-", "0", "1", "-", "3", "1">>,
      <<"2", "0", "0", "7", "-", "1", "2", "-", "3", "1">>,
      <<"2", "0", "1", "7", "-", "1", "3", "-", "0", "1">>,
      <<"2", "0", "1", "7", "-", "0", "4", "-", "3", "1">>,
      <<"2", "0", "1", "7", "-", "0", "0", "-", "1", "0">>,
      <<"2", "0", "1", "7", "-", "9", "-", "1", "5">>,
      <<"2", "0", "1", "7", "/", "0", "9", "/", "1", "5">>,
      <<"1", "7", "-", "0", "9", "-", "1", "5", "x", "x">> }

\* the command lines: no flag, --date without a value, --date with a value
CommandLines ==
    { <<>>, <<"--date">> } \cup { <<"--date", v>> : v \in DateValues }

\* the years in which the account may have been created
AccountYears == { 2008, 2015, 2024 }

InitCli ==
    /\ cliPc = "args"
    /\ today \in Todays
    /\ argv \in CommandLines
    /\ customDate = NoDate
    /\ accountCreatedYear = 0
    /\ authPc = "off"
    /\ storedToken = Null
    /\ oauthConfigured = FALSE
    /\ ghAvailable = FALSE
    /\ attempts = <<>>
    /\ authResult = Null
    /\ oaPc = "off"
    /\ callbacks = <<>>
    /\ authResolve = FALSE
    /\ authTimeout = "unset"
    /\ serverOpen = FALSE
    /\ promise = "none"
    /\ served = 0
    /\ impl = "modular"
    /\ month = 0
    /\ day = 0
    /\ startYear = 0
    /\ endYear = 0
    /\ pc = "off"
    /\ repos = <<>>
    /\ fyear = 0
    /\ candidates = <<>>
    /\ activeReposByYear = EmptyRecord
    /\ RunIdle
    /\ hostRepos = <<>>
    /\ quota = 0

\* the module's top level: --date and its value
ParseArgs ==
    /\ cliPc = "args"
    /\ IF Len(argv) = 0
       THEN customDate' = NoDate /\ cliPc' = "main"
       ELSE IF Len(argv) = 1
       THEN customDate' = NoDate /\ cliPc' = "exit_1"
       ELSE /\ customDate' = parseDateString(argv[2], today)
            /\ cliPc' = IF customDate' = NoDate THEN "exit_1" ELSE "main"
    /\ UNCHANGED <<planVars, runVars, hostVars, authVars, oauthVars, today,
                   argv, accountCreatedYear>>

\* main: authentication has succeeded and getUser answers
GetUser ==
    /\ cliPc = "main"
    /\ accountCreatedYear' \in AccountYears
    /\ cliPc' = "user"
    /\ UNCHANGED <<planVars, runVars, hostVars, authVars, oauthVars, today,
                   argv, customDate>>

\* main: getUser throws; the error is reported and the program exits
GetUserFails ==
    /\ cliPc = "main"
    /\ cliPc' = "exit_1"
    /\ UNCHANGED <<planVars, runVars, hostVars, authVars, oauthVars, today,
                   argv, customDate, accountCreatedYear>>

\* main: the call of getContributionsOnDate
CallGetContributions ==
    /\ cliPc = "user"
    /\ LET dateToUse == IF customDate # NoDate
                        THEN customDate ELSE getCurrentDate(today)
           currentYear == dateToUse.year
       IN  /\ month' = dateToUse.month
           /\ day' = dateToUse.day
           /\ startYear' = accountCreatedYear
           /\ endYear' = currentYear
    /\ cliPc' = "called"
    /\ UNCHANGED <<impl, pc, repos, fyear, candidates, activeReposByYear,
                   runVars, hostVars, authVars, oauthVars, today, argv,
                   customDate, accountCreatedYear>>

NextCli ==
    \/ ParseArgs
    \/ GetUser
    \/ GetUserFails
    \/ CallGetContributions

SpecCli == InitCli /\ [][NextCli]_vars

\* C24: when the program is run with --date YYYY-MM-DD, the year range it
\* passes to getContributionsOnDate runs from the year the account was
\* created through the current calendar year, whatever YYYY is
C24_RangeThroughCurrentYear ==
    (cliPc = "called" /\ customDate # NoDate) =>
        /\ startYear = accountCreatedYear
        /\ endYear = today.year

-----------------------------------------------------------------------------
(* Claims about the number of host requests, checked under SpecCap *)

\* the number of years in [startYear, endYear]
YearsInRange == IF endYear >= startYear THEN endYear - startYear + 1 ELSE 0

\* C25: the host requests of one call of
\* ContributionsAPI.getContributionsOnDate number at most
\* 1 + 2 * MAX_REPOS_PER_YEAR * (years in [startYear, endYear]), whatever
\* the inventory's size and whichever requests fail
C25_RequestBound ==
    impl = "modular" =>
        /\ ~reissued
        /\ Cardinality(issued) <= 1 + 2 * MAX_REPOS_PER_YEAR * YearsInRange

\* C25 witness: a call over an inventory longer than the cap has returned
\* after a failed request, having made exactly that many requests
C25_Witness ==
    /\ impl = "modular"
    /\ pc = "done"
    /\ Len(repos) > MAX_REPOS_PER_YEAR
    /\ \E req \in DOMAIN outcome : IsDetail(req) /\ Failed(req)
    /\ Cardinality(issued) = 1 + 2 * MAX_REPOS_PER_YEAR * YearsInRange

-----------------------------------------------------------------------------
(* SpecAuth: GitHubAuth.authenticate *)

\* the token file: absent, or a token that is fresh, expired, or without an
\* expiry time
TokenFiles == { Null, "fresh", "expired", "no_expiry" }

\* TokenStorage.isTokenExpired
isTokenExpired(token) ==
    IF token = "no_expiry" THEN FALSE ELSE token = "expired"

\* TokenStorage.storeToken: the token is written, or the write fails and the
\* error is swallowed
storeToken(before) == { "fresh", before }

\* the log of attempts with one more method under way
attempt(log, method) == Append(log, [method |-> method, outcome |-> "running"])

\* the log of attempts with the outcome of the method under way
attemptEnded(log, outcome_) ==
    [log EXCEPT ![Len(log)] = [@ EXCEPT !.outcome = outcome_]]

InitAuth ==
    /\ authPc = "start"
    /\ storedToken \in TokenFiles
    /\ oauthConfigured \in BOOLEAN
    /\ ghAvailable \in BOOLEAN
    /\ attempts = <<>>
    /\ authResult = Null
    /\ cliPc = "off"
    /\ today = NoDate
    /\ argv = <<>>
    /\ customDate = NoDate
    /\ accountCreatedYear = 0
    /\ oaPc = "off"
    /\ callbacks = <<>>
    /\ authResolve = FALSE
    /\ authTimeout = "unset"
    /\ serverOpen = FALSE
    /\ promise = "none"
    /\ served = 0
    /\ impl = "modular"
    /\ month = 0
    /\ day = 0
    /\ startYear = 0
    /\ endYear = 0
    /\ pc = "off"
    /\ repos = <<>>
    /\ fyear = 0
    /\ candidates = <<>>
    /\ activeReposByYear = EmptyRecord
    /\ RunIdle
    /\ hostRepos = <<>>
    /\ quota = 0

\* authenticate: a stored token that has not expired is returned as it is
CheckStoredToken ==
    /\ authPc = "start"
    /\ IF storedToken # Null /\ ~isTokenExpired(storedToken)
       THEN authPc' = "returned" /\ authResult' = "stored"
       ELSE authPc' = "confirm" /\ authResult' = authResult
    /\ UNCHANGED <<planVars, runVars, hostVars, cliVars, oauthVars,
                   storedToken, oauthConfigured, ghAvailable, attempts>>

\* authenticate: the user confirms
Confirmed ==
    /\ authPc = "confirm"
    /\ authPc' = "auth_flow"
    /\ UNCHANGED <<planVars, runVars, hostVars, cliVars, oauthVars,
                   storedToken, oauthConfigured, ghAvailable, attempts,
                   authResult>>

\* authenticate: the user declines or cancels; the process exits
Declined ==
    /\ authPc = "confirm"
    /\ authPc' = "exited"
    /\ authResult' = "exit"
    /\ UNCHANGED <<planVars, runVars, hostVars, cliVars, oauthVars,
                   storedToken, oauthConfigured, ghAvailable, attempts>>

\* startAuthFlow: OAuth when it is configured, the manual flow otherwise
StartAuthFlow ==
    /\ authPc = "auth_flow"
    /\ IF oauthConfigured
       THEN authPc' = "oauth" /\ attempts' = attempt(attempts, "oauth")
       ELSE authPc' = "manual_flow" /\ attempts' = attempts
    /\ UNCHANGED <<planVars, runVars, hostVars, cliVars, oauthVars,
                   storedToken, oauthConfigured, ghAvailable, authResult>>

\* startAuthFlow: OAuthAuth.authenticate resolves; the token is stored
OAuthSucceeds ==
    /\ authPc = "oauth"
    /\ attempts' = attemptEnded(attempts, "succeeded")
    /\ storedToken' \in storeToken(storedToken)
    /\ authResult' = "oauth"
    /\ authPc' = "returned"
    /\ UNCHANGED <<planVars, runVars, hostVars, cliVars, oauthVars,
                   oauthConfigured, ghAvailable>>

\* a variant whose catch block goes to the manual token at once
OAuthFails_skipCli ==
    /\ authPc = "oauth"
    /\ attempts' = attempt(attemptEnded(attempts, "failed"), "manual")
    /\ authPc' = "manual"
    /\ UNCHANGED <<planVars, runVars, hostVars, cliVars, oauthVars,
                   storedToken, oauthConfigured, ghAvailable, authResult>>

\* startAuthFlow: OAuthAuth.authenticate rejects; the catch block starts the
\* manual flow
OAuthFails ==
    /\ authPc = "oauth"
    /\ attempts' = attemptEnded(attempts, "failed")
    /\ authPc' = "manual_flow"
    /\ UNCHANGED <<planVars, runVars, hostVars, cliVars, oauthVars,
                   storedToken, oauthConfigured, ghAvailable, authResult>>

\* startManualAuthFlow: the GitHub CLI when it is available, the manual
\* token otherwise
StartManualAuthFlow ==
    /\ authPc = "manual_flow"
    /\ IF ghAvailable
       THEN authPc' = "cli" /\ attempts' = attempt(attempts, "cli")
       ELSE authPc' = "manual" /\ attempts' = attempt(attempts, "manual")
    /\ UNCHANGED <<planVars, runVars, hostVars, cliVars, oauthVars,
                   storedToken, oauthConfigured, ghAvailable, authResult>>

\* useGitHubCLI: GitHubCLIAuth.authenticate resolves; the token is stored
CLISucceeds ==
    /\ authPc = "cli"
    /\ attempts' = attemptEnded(attempts, "succeeded")
    /\ storedToken' \in storeToken(storedToken)
    /\ authResult' = "cli"
    /\ authPc' = "returned"
    /\ UNCHANGED <<planVars, runVars, hostVars, cliVars, oauthVars,
                   oauthConfigured, ghAvailable>>

\* useGitHubCLI: GitHubCLIAuth.authenticate rejects; the catch block goes on
\* to the manual token
CLIFails ==
    /\ authPc = "cli"
    /\ attempts' = attempt(attemptEnded(attempts, "failed"), "manual")
    /\ authPc' = "manual"
    /\ UNCHANGED <<planVars, runVars, hostVars, cliVars, oauthVars,
                   storedToken, oauthConfigured, ghAvailable, authResult>>

\* createManualToken: the user pastes a token; it is stored
ManualSucceeds ==
    /\ authPc = "manual"
    /\ attempts' = attemptEnded(attempts, "succeeded")
    /\ storedToken' \in storeToken(storedToken)
    /\ authResult' = "manual"
    /\ authPc' = "returned"
    /\ UNCHANGED <<planVars, runVars, hostVars, cliVars, oauthVars,
                   oauthConfigured, ghAvailable>>

\* ManualTokenAuth.authenticate: the user cancels the prompt; the process
\* exits
ManualCancelled ==
    /\ authPc = "manual"
    /\ attempts' = attemptEnded(attempts, "cancelled")
    /\ authResult' = "exit"
    /\ authPc' = "exited"
    /\ UNCHANGED <<planVars, runVars, hostVars, cliVars, oauthVars,
                   storedToken, oauthConfigured, ghAvailable>>

NextAuth ==
    \/ CheckStoredToken
    \/ Confirmed
    \/ Declined
    \/ StartAuthFlow
    \/ OAuthSucceeds
    \/ OAuthFails
    \/ StartManualAuthFlow
    \/ CLISucceeds
    \/ CLIFails
    \/ ManualSucceeds
    \/ ManualCancelled

SpecAuth == InitAuth /\ [][NextAuth]_vars

\* the order of preference of the methods
MethodRank == ("oauth" :> 1) @@ ("cli" :> 2) @@ ("manual" :> 3)

\* the method can be used in this run
MethodUsable(method) ==
    CASE method = "oauth"  -> oauthConfigured
      [] method = "cli"    -> ghAvailable
      [] method = "manual" -> TRUE

\* C26: without a valid stored token and after the user's confirmation, the
\* methods are attempted in the order OAuth (only if configured), GitHub
\* CLI (only if available), manual token: each at most once, and a method
\* only after every method of higher preference was unusable or had been
\* attempted and had failed
C26_MethodOrder ==
    /\ attempts # <<>> => authPc \notin {"start", "confirm", "auth_flow"}
    /\ \A k \in 1..Len(attempts) :
         /\ MethodUsable(attempts[k].method)
         /\ \A j \in 1..(k - 1) :
              /\ MethodRank[attempts[j].method] < MethodRank[attempts[k].method]
              /\ attempts[j].outcome = "failed"
         /\ \A h \in DOMAIN MethodRank :
              (MethodRank[h] < MethodRank[attempts[k].method] /\ MethodUsable(h))
                 => \E j \in 1..(k - 1) : attempts[j].method = h

\* C26 witness: OAuth failed, then the GitHub CLI failed, then the manual
\* token was accepted
C26_Witness ==
    /\ authPc = "returned"
    /\ authResult = "manual"
    /\ Len(attempts) = 3
    /\ attempts[1].method = "oauth"
    /\ attempts[2].method = "cli"

-----------------------------------------------------------------------------
(* Claims about the result and the spinner, checked under Spec *)

\* C28: no year occurs twice in the result, and every year of the result
\* lies in [startYear, endYear] and is a key of the plan
C28_ResultYearsDistinctAndPlanned ==
    /\ \A a, b \in 1..Len(contributions) :
         contributions[a].year = contributions[b].year => a = b
    /\ \A c \in 1..Len(contributions) :
         /\ contributions[c].year >= startYear
         /\ contributions[c].year <= endYear
         /\ contributions[c].year \in DOMAIN activeReposByYear

\* C28 witness: a call has returned entries for two years
C28_Witness ==
    /\ pc = "done"
    /\ Len(contributions) = 2
    /\ contributions[1].year # contributions[2].year

\* the year-progress messages among the first k entries of the spinner's log
RECURSIVE YearMessages(_)
YearMessages(k) ==
    IF k = 0
    THEN <<>>
    ELSE IF spinLog[k][1] = "year"
         THEN Append(YearMessages(k - 1), spinLog[k][2])
         ELSE YearMessages(k - 1)

\* the years whose fetch has begun
YearsBegun ==
    SubSeq(years, 1, IF pc = "fetch" THEN yi ELSE Max(yi - 1, 0))

\* C29: in ContributionsAPI.getContributionsOnDate the spinner is started
\* exactly once, first of all, and stopped exactly once, last of all, on every
\* path that ends: with SUCCESS exactly when the call returns and with FAILED
\* exactly when it throws; the year-progress messages lie between the two,
\* one per year fetched, in the order the years are fetched
C29_SpinnerProtocol ==
    impl = "modular" =>
        /\ (pc = "init") <=> (spinLog = <<>>)
        /\ \A k \in 1..Len(spinLog) :
             /\ (spinLog[k] = SpinStart) <=> (k = 1)
             /\ spinLog[k] \in {SpinStopSuccess, SpinStopFailed}
                   => k = Len(spinLog)
        /\ (pc = "done") <=>
             (spinLog # <<>> /\ spinLog[Len(spinLog)] = SpinStopSuccess)
        /\ (pc = "failed") <=>
             (spinLog # <<>> /\ spinLog[Len(spinLog)] = SpinStopFailed)
        /\ YearMessages(Len(spinLog)) = YearsBegun

\* C29 witness: a call that fetched two years has returned
C29_Witness ==
    /\ impl = "modular"
    /\ pc = "done"
    /\ Len(spinLog) = 4
    /\ spinLog[4] = SpinStopSuccess
    /\ YearMessages(4) = years

-----------------------------------------------------------------------------
(* SpecOAuth: OAuthAuth.authenticate and the callback server *)

\* how many callback requests reach the server in one run
MaxCallbacks == 2

\* the promise of waitForCallback is settled by the first call of its resolve
\* or reject; later calls do nothing, and so does a call through
\* app.authResolve?. / app.authReject?. before they are set
settle(how) ==
    IF authResolve /\ promise = "pending" THEN how ELSE promise

InitOAuth ==
    /\ oaPc = "start"
    /\ callbacks = <<>>
    /\ authResolve = FALSE
    /\ authTimeout = "unset"
    /\ serverOpen = FALSE
    /\ promise = "none"
    /\ served = 0
    /\ cliPc = "off"
    /\ today = NoDate
    /\ argv = <<>>
    /\ customDate = NoDate
    /\ accountCreatedYear = 0
    /\ authPc = "off"
    /\ storedToken = Null
    /\ oauthConfigured = TRUE
    /\ ghAvailable = FALSE
    /\ attempts = <<>>
    /\ authResult = Null
    /\ impl = "modular"
    /\ month = 0
    /\ day = 0
    /\ startYear = 0
    /\ endYear = 0
    /\ pc = "off"
    /\ repos = <<>>
    /\ fyear = 0
    /\ candidates = <<>>
    /\ activeReposByYear = EmptyRecord
    /\ RunIdle
    /\ hostRepos = <<>>
    /\ quota = 0

\* authenticate: startCallbackServer resolves, the handler for /callback is
\* set up, and open(authUrl) is awaited
ServerStarts ==
    /\ oaPc = "start"
    /\ serverOpen' = TRUE
    /\ oaPc' = "opening"
    /\ UNCHANGED <<planVars, runVars, hostVars, cliVars, authVars, callbacks,
                   authResolve, authTimeout, promise, served>>

\* authenticate: startCallbackServer rejects; the error is rethrown
ServerFails ==
    /\ oaPc = "start"
    /\ oaPc' = "thrown"
    /\ UNCHANGED <<planVars, runVars, hostVars, cliVars, authVars, callbacks,
                   authResolve, authTimeout, serverOpen, promise, served>>

\* authenticate: open resolves and waitForCallback runs: the timer is armed
\* and the promise's resolve and reject are stored on the app
WaitForCallback ==
    /\ oaPc = "opening"
    /\ oaPc' = "waiting"
    /\ promise' = "pending"
    /\ authResolve' = TRUE
    /\ authTimeout' = "armed"
    /\ UNCHANGED <<planVars, runVars, hostVars, cliVars, authVars, callbacks,
                   serverOpen, served>>

\* authenticate: open rejects; the error is rethrown
OpenFails ==
    /\ oaPc = "opening"
    /\ oaPc' = "thrown"
    /\ UNCHANGED <<planVars, runVars, hostVars, cliVars, authVars, callbacks,
                   authResolve, authTimeout, serverOpen, promise, served>>

\* the handler of /callback: a request with another state is answered 400
\* and rejects the promise
CallbackWithWrongState ==
    /\ serverOpen
    /\ oaPc \in {"opening", "waiting", "returned", "thrown"}
    /\ Len(callbacks) < MaxCallbacks
    /\ callbacks' = Append(callbacks, "wrong_state")
    /\ promise' = settle("rejected")
    /\ UNCHANGED <<planVars, runVars, hostVars, cliVars, authVars, oaPc,
                   authResolve, authTimeout, serverOpen, served>>

\* the handler of /callback: a request with the expected state starts the
\* exchange of its code
CallbackArrives ==
    /\ serverOpen
    /\ oaPc \in {"opening", "waiting", "returned", "thrown"}
    /\ Len(callbacks) < MaxCallbacks
    /\ callbacks' = Append(callbacks, "exchanging")
    /\ UNCHANGED <<planVars, runVars, hostVars, cliVars, authVars, oaPc,
                   authResolve, authTimeout, serverOpen, promise, served>>

\* the handler of /callback: the exchange succeeds; the page is sent, the
\* timer is cleared, app.authResolve?.(result) is called, the server closes
ExchangeSucceeds ==
    \E k \in 1..Len(callbacks) :
        /\ callbacks[k] = "exchanging"
        /\ callbacks' = [callbacks EXCEPT ![k] = "served"]
        /\ authTimeout' = IF authTimeout = "armed" THEN "cleared" ELSE authTimeout
        /\ promise' = settle("resolved")
        /\ serverOpen' = FALSE
        /\ served' = IF promise' = "timeout" THEN served ELSE served + 1
        /\ UNCHANGED <<planVars, runVars, hostVars, cliVars, authVars, oaPc,
                       authResolve>>

\* the handler of /callback: the exchange throws; 500 is sent,
\* app.authReject?.(error) is called, the server closes
ExchangeFails ==
    \E k \in 1..Len(callbacks) :
        /\ callbacks[k] = "exchanging"
        /\ callbacks' = [callbacks EXCEPT ![k] = "failed"]
        /\ promise' = settle("rejected")
        /\ serverOpen' = FALSE
        /\ UNCHANGED <<planVars, runVars, hostVars, cliVars, authVars, oaPc,
                       authResolve, authTimeout, served>>

\* the timer of waitForCallback fires: the server closes and the promise is
\* rejected with 'Authentication timeout'
TimerFires ==
    /\ authTimeout = "armed"
    /\ authTimeout' = "fired"
    /\ serverOpen' = FALSE
    /\ promise' = settle("timeout")
    /\ UNCHANGED <<planVars, runVars, hostVars, cliVars, authVars, oaPc,
                   callbacks, authResolve, served>>

\* authenticate: the awaited promise is settled; the result is returned or
\* the error rethrown
AuthenticateEnds ==
    /\ oaPc = "waiting"
    /\ promise # "pending"
    /\ oaPc' = IF promise = "resolved" THEN "returned" ELSE "thrown"
    /\ UNCHANGED <<planVars, runVars, hostVars, cliVars, authVars, callbacks,
                   authResolve, authTimeout, serverOpen, promise, served>>

NextOAuth ==
    \/ ServerStarts
    \/ ServerFails
    \/ WaitForCallback
    \/ OpenFails
    \/ CallbackWithWrongState
    \/ CallbackArrives
    \/ ExchangeSucceeds
    \/ ExchangeFails
    \/ TimerFires
    \/ AuthenticateEnds

SpecOAuth == InitOAuth /\ [][NextOAuth]_vars

\* C30: a callback with the expected state whose code exchange succeeds makes
\* authenticate resolve with its result, whenever it arrives relative to the
\* registration of the resolver in waitForCallback: authenticate never ends
\* in 'Authentication timeout' after such a callback was served
C30_ServedCallbackNeverTimesOut ==
    served > 0 => promise # "timeout"

====
